---- MODULE Spec2Model ----
(***************************************************************************)
(* Merkle Patricia Forestry: the off-chain trie (trie.js, store.js,        *)
(* helpers.js) and the on-chain verifier (merkle-patricia-forestry.ak,     *)
(* merkling.ak, helpers.ak).                                               *)
(*                                                                         *)
(* Byte buffers are sequences of integers.  A blake2b-256 digest of a      *)
(* buffer b is the buffer b itself between two bracket marks, so that the  *)
(* hash is injective on byte strings (collision-free) while everything     *)
(* that is hashed is still the plain concatenation the code hashes: two    *)
(* different ways to cut the same concatenation give the same digest.      *)
(* Hex strings of nibbles are sequences of integers 0..15.  A sequence     *)
(* built element by element is written [i \in 1..n |-> e] \o <<>>.         *)
(***************************************************************************)
EXTENDS Integers, Sequences, FiniteSets, TLC

\* ---------------------------------------------------------------- bounds

\* Number of keys of the key table that operations may use.
NumKeys == 5

\* Number of distinct values that are stored.
NumValues == 1

\* Largest number of elements the trie is given.
MaxSize == 3

\* ------------------------------------------------------------- constants

\* Number of children of a Branch (radix of the trie).
Radix == 16

\* Number of bytes of a digest of a key, 32 in the code: the model keeps the
\* first bytes of it.
DigestLen == 3

\* Number of nibbles of a path.
PathLen == 2 * DigestLen

HOpen == 0 - 1
HClose == 0 - 2

\* 32 zero bytes.
NULL_HASH == << 0 - 3 >>

\* JS 'undefined' / 'null' where a Buffer is expected.
Undefined == << 0 - 4 >>
Null == << 0 - 5 >>

\* A thrown exception, where a value is expected.
Failure == << 0 - 9 >>

\* The special database key under which the root hash is kept.
ROOT_KEY == << 0 - 7 >>

Keys == 1..NumKeys
Values == 1..NumValues

\* ------------------------------------------------------------- crypto.js

digest(msg) == <<HOpen>> \o msg \o <<HClose>>

\* blake2b-256 of a key, as bytes.  A table of digests standing for the hash
\* function on keys: any two digests differ in at least two nibbles, and
\* differ again after their first difference (no near-collisions).
KeyTable(k) ==
  CASE k = 1 -> << 18, 52, 86 >>      \* 123456
    [] k = 2 -> << 18, 55, 137 >>     \* 123789
    [] k = 3 -> << 18, 171, 205 >>    \* 12abcd
    [] k = 4 -> << 37, 97, 4 >>       \* 256104
    [] k = 5 -> << 18, 57, 101 >>     \* 123965
    [] k = 6 -> << 30, 15, 50 >>      \* 1e0f32
    [] k = 7 -> << 37, 120, 154 >>    \* 25789a
    [] OTHER -> << 240 + k, 0, k >>

\* The digest of a key: the bytes of the table, then zeroes up to DigestLen.
KeyDigest(k) ==
  KeyTable(k) \o ([i \in 1..(DigestLen - Len(KeyTable(k))) |-> 0] \o <<>>)

\* A key / a value as a Buffer.
KeyBuf(k) == << k >>
ValueBuf(v) == << v >>

\* ------------------------------------------------------------ helpers.js

\* Buffer.toString('hex'): two nibbles per byte.
ToHex(buf) ==
  [i \in 1..(2 * Len(buf)) |->
     IF i % 2 = 1 THEN buf[(i + 1) \div 2] \div 16 ELSE buf[i \div 2] % 16] \o <<>>

\* Buffer.from(str, 'hex'): one byte per two nibbles; a trailing odd nibble
\* is dropped.
FromHex(str) ==
  [i \in 1..(Len(str) \div 2) |-> 16 * str[2 * i - 1] + str[2 * i]] \o <<>>

intoPath(k) == ToHex(KeyDigest(k))

\* str.slice(from), 0-based.
Slice(s, from) == IF from >= Len(s) THEN <<>> ELSE SubSeq(s, from + 1, Len(s))

\* str.slice(from, to), 0-based, end excluded.
Slice2(s, from, to) ==
  IF from >= to \/ from >= Len(s) THEN <<>>
  ELSE SubSeq(s, from + 1, IF to > Len(s) THEN Len(s) ELSE to)

Min(a, b) == IF a < b THEN a ELSE b

RECURSIVE CommonLen(_, _, _)
CommonLen(a, b, i) ==
  IF i > Len(a) \/ i > Len(b) THEN i - 1
  ELSE IF a[i] # b[i] THEN i - 1
  ELSE CommonLen(a, b, i + 1)

\* commonPrefix([a, b]).
commonPrefix(a, b) == SubSeq(a, 1, CommonLen(a, b, 1))

\* nibble(digit): the number a hex digit stands for; a hex digit is kept as
\* the integer it denotes, and anything else is not a digit.
nibble(digit) == IF digit \in 0..(Radix - 1) THEN digit ELSE 0 - 1

\* nibbles(str): a buffer with one byte per hex digit of str.
nibbles(str) == [i \in 1..Len(str) |-> nibble(str[i])] \o <<>>

\* A child slot: a hash, or <<>> for 'undefined'.
NoChild == <<>>

\* sparseVector({ [a]: x, [b]: y }).
sparseVector(a, x, b, y) ==
  [i \in 1..Radix |-> IF i = b + 1 THEN y ELSE IF i = a + 1 THEN x ELSE NoChild] \o <<>>

\* The sizes of the children of sparseVector({ [a]: x, [b]: y }).
sparseSizes(a, x, b, y) ==
  [i \in 1..Radix |-> IF i = b + 1 THEN y ELSE IF i = a + 1 THEN x ELSE 0] \o <<>>

RECURSIVE merkleRootN(_)
merkleRootN(nodes) ==
  IF Len(nodes) = 1 THEN nodes[1]
  ELSE merkleRootN([i \in 1..(Len(nodes) \div 2) |->
                      digest(nodes[2 * i - 1] \o nodes[2 * i])] \o <<>>)

\* merkleRoot(children): children are hashes or undefined.
merkleRoot(children) ==
  merkleRootN([i \in 1..Len(children) |->
                 IF children[i] = NoChild THEN NULL_HASH ELSE children[i]] \o <<>>)

\* merkleProof(nodes, me): the neighbors from the top level down.
RECURSIVE merkleProofLoop(_, _, _, _)
merkleProofLoop(nodes, me, pivot, n) ==
  IF n < 1 THEN <<>>
  ELSE IF me < pivot
    THEN << merkleRoot(Slice2(nodes, pivot, pivot + n)) >>
           \o merkleProofLoop(nodes, me, pivot - (n \div 2), n \div 2)
    ELSE << merkleRoot(Slice2(nodes, pivot - n, pivot)) >>
           \o merkleProofLoop(nodes, me, pivot + (n \div 2), n \div 2)

merkleProof(nodes, me) == merkleProofLoop(nodes, me, 8, 8)


\* -------------------------------------------------------------- store.js

\* What the store keeps under a key: a serialised Leaf or Branch, or, under
\* ROOT_KEY, the root hash in hexadecimal.
Blob(kind, prefix, key, value, children, size, root) ==
  [kind |-> kind, prefix |-> prefix, key |-> key, value |-> value,
   children |-> children, size |-> size, root |-> root]

Put(key, blob) == [type |-> "put", key |-> key, value |-> blob]
Del(key) == [type |-> "del", key |-> key, value |-> Blob("", <<>>, 0, 0, <<>>, 0, <<>>)]

EmptyDb == [x \in {} |-> Blob("", <<>>, 0, 0, <<>>, 0, <<>>)]

\* inMemoryMap.put / inMemoryMap.del
DbPut(db, k, v) == (k :> v) @@ db
DbDel(db, k) == [x \in (DOMAIN db) \ {k} |-> db[x]] @@ EmptyDb

\* inMemoryMap.batch(ops): the operations in the order they were queued.
RECURSIVE DbBatch(_, _)
DbBatch(db, ops) ==
  IF ops = <<>> THEN db
  ELSE DbBatch(IF ops[1].type = "put" THEN DbPut(db, ops[1].key, ops[1].value)
                                        ELSE DbDel(db, ops[1].key),
               Tail(ops))

\* --------------------------------------------------------------- trie.js

\* A Trie, Leaf or Branch object.  'children' holds the children's hashes
\* (the { hash } handles), <<>> for an empty slot.
Node(kind, hash, prefix, size, key, value, children, isRoot) ==
  [kind |-> kind, hash |-> hash, prefix |-> prefix, size |-> size,
   key |-> key, value |-> value, children |-> children, isRoot |-> isRoot]

\* new Trie(): the empty trie, hash = null, isRoot = (hash === null).
NewTrie == Node("Trie", Null, <<>>, 0, 0, 0, <<>>, TRUE)

\* 'undefined' where a Trie object is expected.
NoNode == Node("None", Undefined, <<>>, 0, 0, 0, <<>>, FALSE)

\* Leaf.computeHash(prefix, value), value a digest.
LeafComputeHash(prefix, value) ==
  LET isOdd == Len(prefix) % 2 > 0
      head == IF isOdd THEN <<0>> \o nibbles(Slice2(prefix, 0, 1)) ELSE <<255>>
      tail == FromHex(IF isOdd THEN Slice(prefix, 1) ELSE prefix)
  IN digest(head \o tail \o value)

\* Branch.computeHash(prefix, root), root the Merkle root of the children.
BranchComputeHash(prefix, root) == digest(nibbles(prefix) \o root)

\* Leaf.serialise / Branch.serialise
LeafSerialise(leaf) ==
  Blob("Leaf", leaf.prefix, leaf.key, leaf.value, <<>>, 0, <<>>)
BranchSerialise(branch) ==
  Blob("Branch", branch.prefix, 0, 0, branch.children, branch.size, <<>>)
Serialise(node) ==
  IF node.kind = "Leaf" THEN LeafSerialise(node) ELSE BranchSerialise(node)

\* Trie.deserialise(hash, blob)
Deserialise(hash, blob) ==
  IF blob.kind = "Leaf"
    THEN Node("Leaf", hash, blob.prefix, 1, blob.key, blob.value, <<>>, FALSE)
    ELSE Node("Branch", hash, blob.prefix, blob.size, 0, 0, blob.children, FALSE)

\* Trie.save(previousHash): deletes the previous node and, for the root,
\* records the root hash under ROOT_KEY.  Store.del(null) throws (null has
\* no toString), and then nothing of this save is written.
TrieSaveThrows(previousHash) == previousHash = Null

TrieSaveOps(node, previousHash) ==
  IF TrieSaveThrows(previousHash) THEN <<>>
  ELSE (IF previousHash # Undefined THEN << Del(previousHash) >> ELSE <<>>)
       \o (IF node.isRoot
             THEN << Put(ROOT_KEY,
                         Blob("Root", <<>>, 0, 0, <<>>, 0,
                              ToHex(IF node.hash = Null THEN NULL_HASH ELSE node.hash))) >>
             ELSE <<>>)

\* The outcome of an operation on a node: the node as the operation leaves
\* it, the store operations it issued, in order, and whether it returned
\* (ok) or threw.
Outcome(ok, node, ops) == [ok |-> ok, node |-> node, ops |-> ops]

\* Leaf.save(previousHash)
LeafSave(leaf, previousHash) ==
  LET Saved(l) ==
        Outcome(~TrieSaveThrows(previousHash), l,
                << Put(l.hash, LeafSerialise(l)) >> \o TrieSaveOps(l, previousHash))
  IN Saved([leaf EXCEPT !.hash = LeafComputeHash(leaf.prefix, digest(ValueBuf(leaf.value)))])

EndsWith(s, suffix) ==
  /\ Len(suffix) <= Len(s)
  /\ Slice(s, Len(s) - Len(suffix)) = suffix

\* Leaf.from(suffix, key, value, store)
LeafFrom(suffix, k, v) ==
  LET From(leaf) ==
        IF ~EndsWith(intoPath(k), suffix) THEN Outcome(FALSE, leaf, <<>>)
        ELSE LeafSave(leaf, Undefined)
  IN From(Node("Leaf", LeafComputeHash(suffix, digest(ValueBuf(v))),
               suffix, 1, k, v, <<>>, FALSE))

\* Branch.save(previousHash): recomputes the hash from the children and
\* collapses the children back to hashes.
BranchSave(branch, previousHash) ==
  LET Saved(b) ==
        Outcome(~TrieSaveThrows(previousHash), b,
                << Put(b.hash, BranchSerialise(b)) >> \o TrieSaveOps(b, previousHash))
  IN Saved([branch EXCEPT
              !.hash = BranchComputeHash(branch.prefix, merkleRoot(branch.children))])

NonEmpty(children) == {i \in 1..Len(children) : children[i] # NoChild}

RECURSIVE SumSizes(_, _)
SumSizes(sizes, i) ==
  IF i > Len(sizes) THEN 0 ELSE sizes[i] + SumSizes(sizes, i + 1)

\* Branch.from(prefix, children, store): children are the hashes of the
\* child objects and sizes their sizes (0 for an empty slot).
BranchFrom(prefix, children, sizes) ==
  LET From(branch) ==
        IF \/ \E i \in NonEmpty(children) : sizes[i] = 0
           \/ Cardinality(NonEmpty(children)) <= 1
           \/ Len(children) # Radix
          THEN Outcome(FALSE, branch, <<>>)
          ELSE BranchSave(branch, Undefined)
  IN From(Node("Branch", BranchComputeHash(prefix, merkleRoot(children)),
               prefix, SumSizes(sizes, 1), 0, 0, children, FALSE))

\* Trie.into(target, ...args), after target.from(...) returned 'made' with
\* the operations 'ops': this object becomes 'made', keeps its isRoot and
\* is saved in place of its previous hash.
Into(self, made, ops) ==
  LET Save(me) ==
        IF me.kind = "Leaf" THEN LeafSave(me, self.hash)
        ELSE IF me.kind = "Branch" THEN BranchSave(me, self.hash)
        ELSE Outcome(~TrieSaveThrows(self.hash), me, TrieSaveOps(me, self.hash))
      Saved(saved) == Outcome(saved.ok, saved.node, ops \o saved.ops)
  IN Saved(Save([made EXCEPT !.isRoot = self.isRoot]))

\* Trie.insert(key, value) on the empty trie: this.into(Leaf, path, key, value)
TrieInsert(self, k, v) ==
  LET Made(leaf) ==
        IF ~leaf.ok THEN Outcome(FALSE, self, leaf.ops)
        ELSE Into(self, leaf.node, leaf.ops)
  IN Made(LeafFrom(intoPath(k), k, v))

\* A variant of leafSuffix that keeps the nibble the leaves branch on.
leafSuffixWithNibble(path, prefix) == Slice(path, Len(prefix))

\* Leaf.insert: what is left of the path of a leaf below the new Branch, its
\* prefix and the nibble that follows it removed.
leafSuffix(path, prefix) == Slice(path, Len(prefix) + 1)

\* A variant of Leaf.insert that puts the new element in place of the leaf.
LeafInsertOverwrite(self, k, v) ==
  LET full == intoPath(k)
      Made(leaf) ==
        IF ~leaf.ok THEN Outcome(FALSE, self, leaf.ops)
        ELSE Into(self, leaf.node, leaf.ops)
  IN Made(LeafFrom(Slice(full, Len(full) - Len(self.prefix)), k, v))

\* Leaf.insert(key, value).  The first assertion compares the two key
\* objects by identity; the caller's key is another object.
LeafInsert(self, k, v) ==
  LET thisPath == self.prefix
      full == intoPath(k)
      newPath == Slice(full, Len(full) - Len(thisPath))
      prefix == commonPrefix(thisPath, newPath)
      thisNibble == thisPath[Len(prefix) + 1]
      newNibble == newPath[Len(prefix) + 1]
      Fork(mine, new) ==
        LET Made(branch) ==
              IF ~branch.ok THEN Outcome(FALSE, self, mine.ops \o new.ops)
              ELSE Into(self, branch.node, mine.ops \o new.ops \o branch.ops)
        IN IF ~mine.ok THEN Outcome(FALSE, self, mine.ops)
           ELSE IF ~new.ok THEN Outcome(FALSE, self, mine.ops \o new.ops)
           ELSE Made(BranchFrom(prefix,
                       sparseVector(thisNibble, mine.node.hash, newNibble, new.node.hash),
                       sparseSizes(thisNibble, 1, newNibble, 1)))
  IN IF Len(self.prefix) = 0 \/ thisPath = newPath
       THEN Outcome(FALSE, self, <<>>)
     ELSE Fork(LeafFrom(leafSuffix(thisPath, prefix), self.key, self.value),
               LeafFrom(leafSuffix(newPath, prefix), k, v))

\* Whether Branch.fetchChildren() returns: at least two children, each of
\* them readable from the store.
CanFetch(db, node) ==
  /\ Cardinality(NonEmpty(node.children)) > 1
  /\ \A i \in NonEmpty(node.children) : node.children[i] \in DOMAIN db

\* The children of a Branch as objects, as fetchChildren() loads them.
Fetched(db, node) ==
  [i \in 1..Len(node.children) |->
     IF node.children[i] = NoChild THEN NoNode
     ELSE Deserialise(node.children[i], db[node.children[i]])] \o <<>>

\* Branch.insert(key, value): the loop down the trie, followed, for each
\* parent from the deepest to the root, by size += 1 and save(node.hash).
RECURSIVE BranchInsertLoop(_, _, _, _, _)
BranchInsertLoop(db, node, fullPath, k, v) ==
  LET prefix == IF Len(node.prefix) > 0 THEN commonPrefix(node.prefix, fullPath) ELSE <<>>
      path == Slice(fullPath, Len(prefix))
      thisNibble == path[1]
      kids == Fetched(db, node)
      \* the parent, once its child at thisNibble is 'child'
      Parent(child, ops) ==
        LET Saved(saved) == Outcome(saved.ok, saved.node, ops \o saved.ops)
        IN Saved(BranchSave([node EXCEPT !.children[thisNibble + 1] = child.hash,
                                         !.size = node.size + 1],
                            node.hash))
      Up(r) == IF ~r.ok THEN Outcome(FALSE, node, <<>>) ELSE Parent(r.node, r.ops)
      \* the node split at the end of the common prefix
      Split(newNibble, leaf, moved) ==
        LET Made(split) ==
              IF thisNibble = newNibble \/ ~leaf.ok \/ ~moved.ok \/ ~split.ok
                THEN Outcome(FALSE, node, <<>>)
                ELSE Into(node, split.node, leaf.ops \o moved.ops \o split.ops)
        IN Made(BranchFrom(prefix,
                  sparseVector(thisNibble, leaf.node.hash, newNibble, moved.node.hash),
                  sparseSizes(thisNibble, leaf.node.size, newNibble, moved.node.size)))
      Below(child) ==
        IF child.kind = "None" THEN Up(LeafFrom(Slice(path, 1), k, v))
        ELSE IF child.kind = "Leaf" THEN Up(LeafInsert(child, k, v))
        ELSE Up(BranchInsertLoop(db, child, Slice(path, 1), k, v))
  IN IF ~CanFetch(db, node) \/ path = <<>> THEN Outcome(FALSE, node, <<>>)
     ELSE IF Len(prefix) < Len(node.prefix)
       THEN Split(node.prefix[Len(prefix) + 1],
                  LeafFrom(Slice(path, 1), k, v),
                  BranchFrom(Slice(node.prefix, Len(prefix) + 1), node.children,
                             [i \in 1..Radix |-> kids[i].size] \o <<>>))
     ELSE Below(kids[thisNibble + 1])

\* A variant of Leaf.delete without the assertion on the key.
LeafDeleteAny(self, k) == Into(self, NewTrie, TrieSaveOps(NewTrie, Undefined))

\* Leaf.delete(key): this.into(Trie); Trie.from(store) saves a new empty
\* Trie, which is a root as long as its hash is null.
LeafDelete(self, k) ==
  IF self.key # k THEN Outcome(FALSE, self, <<>>)
  ELSE Into(self, NewTrie, TrieSaveOps(NewTrie, Undefined))

\* A variant of mergedPrefix that leaves out the neighbor's nibble.
mergedPrefixNoNibble(prefix, neighborNibble, neighborPrefix) ==
  prefix \o neighborPrefix

\* Branch.delete: the prefix of a node merged with its only child.
mergedPrefix(prefix, neighborNibble, neighborPrefix) ==
  prefix \o << neighborNibble >> \o neighborPrefix

\* Branch.delete(key): the loop down the trie.  A node that is left with
\* one child is merged with it.
RECURSIVE BranchDeleteLoop(_, _, _, _)
BranchDeleteLoop(db, node, path, k) ==
  LET cursor == Len(node.prefix)
      thisNibble == path[cursor + 1]
      kids == Fetched(db, node)
      AsChild(r) == Outcome(r.ok, NoNode, r.ops)
      Saved(saved, ops) == Outcome(saved.ok, saved.node, ops \o saved.ops)
      \* the node merged with its only child, a Leaf
      Merged(leaf, ops) ==
        IF ~leaf.ok THEN Outcome(FALSE, node, <<>>)
        ELSE Into(node, leaf.node, ops \o leaf.ops)
      Collapse(neighborNibble, neighbor, ops) ==
        IF neighbor.kind = "Leaf"
          THEN Merged(LeafFrom(mergedPrefix(node.prefix, neighborNibble, neighbor.prefix),
                               neighbor.key, neighbor.value),
                      ops \o << Del(neighbor.hash) >>)
          ELSE Saved(BranchSave([node EXCEPT
                                   !.children = neighbor.children,
                                   !.prefix = mergedPrefix(node.prefix, neighborNibble,
                                                           neighbor.prefix),
                                   !.size = neighbor.size],
                                Undefined),
                     ops \o << Del(neighbor.hash) >>)
      Only(r, neighborIx, ops) ==
        Collapse(neighborIx - 1,
                 IF neighborIx = thisNibble + 1 THEN r.node ELSE kids[neighborIx], ops)
      Left(r, children) ==
        IF ~r.ok THEN Outcome(FALSE, node, <<>>)
        ELSE IF Cardinality(NonEmpty(children)) = 1
          THEN Only(r, CHOOSE i \in NonEmpty(children) : TRUE,
                    << Del(node.hash) >> \o r.ops)
        ELSE Saved(BranchSave([node EXCEPT !.children = children,
                                           !.size = node.size - 1],
                              Undefined),
                   << Del(node.hash) >> \o r.ops)
      Below(r) ==
        Left(r, [node.children EXCEPT ![thisNibble + 1] =
                   IF r.node.kind = "None" THEN NoChild ELSE r.node.hash])
  IN IF node.kind = "None" THEN Outcome(FALSE, node, <<>>)
     ELSE IF node.kind = "Leaf" THEN AsChild(LeafDelete(node, k))
     ELSE IF cursor >= Len(path) \/ ~CanFetch(db, node) THEN Outcome(FALSE, node, <<>>)
     ELSE Below(BranchDeleteLoop(db, kids[thisNibble + 1], Slice(path, cursor + 1), k))

\* What a top-level call leaves behind: the trie object, the content of the
\* store, and whether the call returned (ok) or threw.
Result(ok, t, d) == [ok |-> ok, trie |-> t, db |-> d]

\* trie.insert(key, value), by the kind of the trie.  Only Branch.insert
\* runs in a Store.batch: its operations are written when the callback
\* returns, and dropped when it throws, after which the Branch is saved
\* again.  The other kinds write their operations as they are issued.
Insert(t, d, k, v) ==
  LET Written(r) == Result(r.ok, r.node, DbBatch(d, r.ops))
      Batch(r) == IF r.ok THEN Written(r)
                  ELSE [Written(BranchSave(t, Undefined)) EXCEPT !.ok = FALSE]
  IN IF t.kind = "Trie" THEN Written(TrieInsert(t, k, v))
     ELSE IF t.kind = "Leaf" THEN Written(LeafInsert(t, k, v))
     ELSE Batch(BranchInsertLoop(d, t, intoPath(k), k, v))

\* trie.delete(key), by the kind of the trie: Trie.delete asserts false.
Delete(t, d, k) ==
  LET Written(r) == Result(r.ok, r.node, DbBatch(d, r.ops))
      Batch(r) == IF r.ok THEN Written(r)
                  ELSE [Written(BranchSave(t, Undefined)) EXCEPT !.ok = FALSE]
  IN IF t.kind = "Trie" THEN Result(FALSE, t, d)
     ELSE IF t.kind = "Leaf" THEN Written(LeafDelete(t, k))
     ELSE Batch(BranchDeleteLoop(d, t, intoPath(k), k))

RECURSIVE CommonPrefixOf(_)
CommonPrefixOf(words) ==
  LET w == CHOOSE x \in words : TRUE
  IN IF words = {w} THEN w ELSE commonPrefix(w, CommonPrefixOf(words \ {w}))

RECURSIVE ConcatOps(_, _)
ConcatOps(outcomes, i) ==
  IF i > Len(outcomes) THEN <<>> ELSE outcomes[i].ops \o ConcatOps(outcomes, i + 1)

\* Trie.fromList, the inner loop: ks are the keys of the elements, val their
\* values, and off the number of nibbles already removed from their paths.
RECURSIVE FromListLoop(_, _, _)
FromListLoop(ks, val, off) ==
  LET prefix == CommonPrefixOf({Slice(intoPath(k), off) : k \in ks})
      at == off + Len(prefix)
      Only(k) == LeafFrom(prefix, k, val[k])
      Made(nodes, branch) ==
        Outcome(branch.ok /\ \A i \in 1..Radix : nodes[i].ok,
                branch.node, ConcatOps(nodes, 1) \o branch.ops)
      Above(nodes) ==
        Made(nodes,
             BranchFrom(prefix,
                        [i \in 1..Radix |->
                           IF nodes[i].node.size = 0 THEN NoChild ELSE nodes[i].node.hash]
                        \o <<>>,
                        [i \in 1..Radix |-> nodes[i].node.size] \o <<>>))
  IN IF ks = {} THEN Outcome(TRUE, NewTrie, <<>>)
     ELSE IF Cardinality(ks) = 1 THEN Only(CHOOSE x \in ks : TRUE)
     ELSE Above([i \in 1..Radix |->
                   FromListLoop({k \in ks : intoPath(k)[at + 1] = i - 1}, val, at + 1)]
                \o <<>>)

\* Trie.fromList(elements) with the default store, a new one: the trie is
\* made a root and saved.  For no element the loop returns new Trie(), whose
\* store is another new Store: its save writes nothing to the store given.
FromList(ks, val) ==
  LET Save(root) ==
        IF root.kind = "Leaf" THEN LeafSave(root, Undefined)
        ELSE IF root.kind = "Branch" THEN BranchSave(root, Undefined)
        ELSE Outcome(TRUE, root, <<>>)
      Saved(built, saved) ==
        Result(built.ok /\ saved.ok, saved.node, DbBatch(EmptyDb, built.ops \o saved.ops))
      Built(built) == Saved(built, Save([built.node EXCEPT !.isRoot = TRUE]))
  IN Built(FromListLoop(ks, val, 0))

\* What Trie.load returns: whether it returned (ok) or threw, the trie, and
\* the store of the trie, 1 for the store given and 2 for another Store.
Loaded(ok, t, s) == [ok |-> ok, trie |-> t, store |-> s]

\* Trie.load(store), d the content of the store: the entry under ROOT_KEY
\* read as hexadecimal; new Trie(), on a store of its own, for NULL_HASH,
\* and otherwise the node under that hash, deserialised on the store given.
\* It throws when an entry is missing (Buffer.from(undefined, 'hex'), or
\* Trie.deserialise of undefined).
Load(d) ==
  LET Got(root) ==
        IF root = NULL_HASH THEN Loaded(TRUE, NewTrie, 2)
        ELSE IF root \notin DOMAIN d THEN Loaded(FALSE, NoNode, 0)
        ELSE Loaded(TRUE, [Deserialise(root, d[root]) EXCEPT !.isRoot = TRUE], 1)
  IN IF ROOT_KEY \notin DOMAIN d THEN Loaded(FALSE, NoNode, 0)
     ELSE Got(FromHex(d[ROOT_KEY].root))

\* The root hash of a trie, NULL_HASH standing for the empty trie's null.
RootOf(t) == IF t.hash = Null THEN NULL_HASH ELSE t.hash


\* ---------------------------------------------------------- trie.js, Proof

\* A step of a proof.  A Branch step has 'neighbors', a Leaf step the
\* neighbor's 'key' (its path) and 'value' (digest), a Fork step the
\* neighbor's 'prefix' (one byte per nibble), 'nibble' and 'root'.
Step(type, skip, neighbors, key, value, prefix, nib, root) ==
  [type |-> type, skip |-> skip, neighbors |-> neighbors, key |-> key,
   value |-> value, prefix |-> prefix, nibble |-> nib, root |-> root]

BranchStep(skip, neighbors) == Step("branch", skip, neighbors, <<>>, <<>>, <<>>, 0, <<>>)
LeafStep(skip, key, value) == Step("leaf", skip, <<>>, key, value, <<>>, 0, <<>>)
ForkStep(skip, prefix, nib, root) == Step("fork", skip, <<>>, <<>>, <<>>, prefix, nib, root)

\* new Proof(path, value): value is 0 for 'undefined'.
Proof(path, value, steps) == [path |-> path, value |-> value, steps |-> steps]

NoProof == Proof(<<>>, 0, <<>>)

\* The first index of 'children' whose hash is 'hash', 0-based; -1 if none.
RECURSIVE findIndex(_, _, _)
findIndex(children, hash, i) ==
  IF i > Len(children) THEN 0 - 1
  ELSE IF (IF children[i].kind = "None" THEN NULL_HASH ELSE children[i].hash) = hash
    THEN i - 1
  ELSE findIndex(children, hash, i + 1)

\* A variant of Proof.rewind that records the neighbor's value, not its digest.
rewindPlainValue(proof, target, skip, children) ==
  LET me == findIndex(children, target.hash, 1)
      nonEmptyNeighbors == {i \in 1..Len(children) :
                              children[i].kind # "None" /\ i - 1 # me}
      ix == CHOOSE i \in nonEmptyNeighbors : TRUE
      neighbor == children[ix]
      hashes == [i \in 1..Len(children) |->
                   IF children[i].kind = "None" THEN NoChild ELSE children[i].hash] \o <<>>
      step == IF Cardinality(nonEmptyNeighbors) = 1
                THEN IF neighbor.kind = "Leaf"
                       THEN LeafStep(skip, intoPath(neighbor.key),
                                     ValueBuf(neighbor.value))
                       ELSE ForkStep(skip, nibbles(neighbor.prefix), ix - 1,
                                     merkleRoot(neighbor.children))
                ELSE BranchStep(skip, merkleProof(hashes, me))
  IN IF me = 0 - 1 THEN <<>>
     ELSE << Proof(proof.path, proof.value, << step >> \o proof.steps) >>

\* Proof.rewind(target, skip, children): children are the fetched objects.
\* The result is <<>> when the assertion fails.
rewind(proof, target, skip, children) ==
  LET me == findIndex(children, target.hash, 1)
      nonEmptyNeighbors == {i \in 1..Len(children) :
                              children[i].kind # "None" /\ i - 1 # me}
      ix == CHOOSE i \in nonEmptyNeighbors : TRUE
      neighbor == children[ix]
      hashes == [i \in 1..Len(children) |->
                   IF children[i].kind = "None" THEN NoChild ELSE children[i].hash] \o <<>>
      step == IF Cardinality(nonEmptyNeighbors) = 1
                THEN IF neighbor.kind = "Leaf"
                       THEN LeafStep(skip, intoPath(neighbor.key),
                                     digest(ValueBuf(neighbor.value)))
                       ELSE ForkStep(skip, nibbles(neighbor.prefix), ix - 1,
                                     merkleRoot(neighbor.children))
                ELSE BranchStep(skip, merkleProof(hashes, me))
  IN IF me = 0 - 1 THEN <<>>
     ELSE << Proof(proof.path, proof.value, << step >> \o proof.steps) >>

StartsWith(s, prefix) ==
  /\ Len(prefix) <= Len(s)
  /\ Slice2(s, 0, Len(prefix)) = prefix

\* Trie.walk / Leaf.walk / Branch.walk: the proof in a one-element sequence,
\* or <<>> when the walk throws.
RECURSIVE walk(_, _, _)
walk(db, node, path) ==
  IF node.kind = "Leaf"
    THEN IF StartsWith(path, node.prefix)
           THEN << Proof(intoPath(node.key),
                         IF path = node.prefix THEN node.value ELSE 0, <<>>) >>
           ELSE <<>>
  ELSE IF node.kind = "Branch"
    THEN LET skip == Len(node.prefix)
             rest == Slice(path, skip)
             branch == nibble(rest[1])
             children == Fetched(db, node)
             child == children[branch + 1]
             proof == walk(db, child, Slice(rest, 1))
         IN IF ~StartsWith(path, node.prefix) \/ rest = <<>> \/ ~CanFetch(db, node)
              THEN <<>>
            ELSE IF child.kind = "None" \/ proof = <<>> THEN <<>>
            ELSE rewind(proof[1], child, skip, children)
  ELSE <<>>

\* A variant of the loop of childAt that takes the child at the nibble
\* path[ix], without skipping the prefix of the node.
RECURSIVE childAtLoopNoSkip(_, _, _, _)
childAtLoopNoSkip(d, node, path, ix) ==
  IF ix >= Len(path) THEN node
  ELSE IF node.kind = "Leaf"
    THEN IF StartsWith(node.prefix, Slice(path, ix)) THEN node ELSE NoNode
  ELSE LET child == node.children[nibble(path[ix + 1]) + 1]
       IN IF child = NoChild THEN NoNode
          ELSE childAtLoopNoSkip(d, Deserialise(child, d[child]), path,
                                 ix + Len(node.prefix) + 1)

\* Trie.childAt(path), the loop: 'node' is the trie the task resolved to and
\* ix the number of nibbles of the path already followed.  NoNode stands
\* for undefined.
RECURSIVE childAtLoop(_, _, _, _)
childAtLoop(d, node, path, ix) ==
  IF ix >= Len(path) THEN node
  ELSE IF node.kind = "Leaf"
    THEN IF StartsWith(node.prefix, Slice(path, ix)) THEN node ELSE NoNode
  ELSE LET at == ix + Len(node.prefix)
           child == IF at < Len(path) THEN node.children[nibble(path[at + 1]) + 1]
                    ELSE NoChild
       IN IF child = NoChild THEN NoNode
          ELSE childAtLoop(d, Deserialise(child, d[child]), path, at + 1)

\* Trie.childAt(path)
childAt(t, d, path) == IF t.size = 0 THEN NoNode ELSE childAtLoop(d, t, path, 0)

\* trie.get(key): the value, or 0 for undefined.
get(t, d, k) ==
  LET Found(node) ==
        IF node.kind = "Leaf" /\ KeyBuf(node.key) = KeyBuf(k) THEN node.value ELSE 0
  IN Found(childAt(t, d, intoPath(k)))

\* trie.prove(key)
prove(t, d, k) == walk(d, t, intoPath(k))

\* The hash of h(left, right) in Proof.verify, 'undefined' standing for
\* NULL_HASH.
h(left, right) ==
  digest((IF left = Undefined THEN NULL_HASH ELSE left)
         \o (IF right = Undefined THEN NULL_HASH ELSE right))

\* The table of Proof.verify for a Branch step: the Merkle root of the 16
\* children from the hash 'me' at thisNibble and the four neighbors.
branchMerkle(thisNibble, me, lvl1, lvl2, lvl3, lvl4) ==
  CASE thisNibble = 0 -> h(h(h(h(me, lvl4), lvl3), lvl2), lvl1)
    [] thisNibble = 1 -> h(h(h(h(lvl4, me), lvl3), lvl2), lvl1)
    [] thisNibble = 2 -> h(h(h(lvl3, h(me, lvl4)), lvl2), lvl1)
    [] thisNibble = 3 -> h(h(h(lvl3, h(lvl4, me)), lvl2), lvl1)
    [] thisNibble = 4 -> h(h(lvl2, h(h(me, lvl4), lvl3)), lvl1)
    [] thisNibble = 5 -> h(h(lvl2, h(h(lvl4, me), lvl3)), lvl1)
    [] thisNibble = 6 -> h(h(lvl2, h(lvl3, h(me, lvl4))), lvl1)
    [] thisNibble = 7 -> h(h(lvl2, h(lvl3, h(lvl4, me))), lvl1)
    [] thisNibble = 8 -> h(lvl1, h(h(h(me, lvl4), lvl3), lvl2))
    [] thisNibble = 9 -> h(lvl1, h(h(h(lvl4, me), lvl3), lvl2))
    [] thisNibble = 10 -> h(lvl1, h(h(lvl3, h(me, lvl4)), lvl2))
    [] thisNibble = 11 -> h(lvl1, h(h(lvl3, h(lvl4, me)), lvl2))
    [] thisNibble = 12 -> h(lvl1, h(lvl2, h(h(me, lvl4), lvl3)))
    [] thisNibble = 13 -> h(lvl1, h(lvl2, h(h(lvl4, me), lvl3)))
    [] thisNibble = 14 -> h(lvl1, h(lvl2, h(lvl3, h(me, lvl4))))
    [] OTHER -> h(lvl1, h(lvl2, h(lvl3, h(lvl4, me))))

\* Proof.verify(includingItem), the loop.  The result is a hash, Undefined,
\* or Failure when an assertion fails or a value that is not there is read.
RECURSIVE verifyLoop(_, _, _, _)
verifyLoop(proof, includingItem, cursor, ix) ==
  IF ix + 1 > Len(proof.steps)
    THEN IF ~includingItem THEN Undefined
         ELSE IF proof.value = 0 THEN Failure
         ELSE LeafComputeHash(Slice(proof.path, cursor), digest(ValueBuf(proof.value)))
  ELSE
    LET step == proof.steps[ix + 1]
        isLastStep == ix + 2 > Len(proof.steps)
        nextCursor == cursor + 1 + step.skip
        me == verifyLoop(proof, includingItem, nextCursor, ix + 1)
        thisNibble == nibble(proof.path[nextCursor])
        prefix == Slice2(proof.path, cursor, nextCursor - 1)
        root(a, x, b, y) == BranchComputeHash(prefix, merkleRoot(sparseVector(a, x, b, y)))
    IN IF me = Failure \/ nextCursor > Len(proof.path) THEN Failure
       ELSE IF step.type = "branch"
         THEN IF Len(step.neighbors) < 4 THEN Failure
              ELSE BranchComputeHash(prefix,
                     branchMerkle(thisNibble, me, step.neighbors[1], step.neighbors[2],
                                  step.neighbors[3], step.neighbors[4]))
       ELSE IF step.type = "fork"
         THEN IF ~includingItem /\ isLastStep
                THEN IF step.skip = 0
                       THEN digest(<< step.nibble >> \o step.prefix \o step.root)
                       ELSE digest(nibbles(Slice2(proof.path, cursor, cursor + step.skip))
                                   \o << step.nibble >> \o step.prefix \o step.root)
              ELSE IF step.nibble = thisNibble THEN Failure
              ELSE root(thisNibble, me, step.nibble, digest(step.prefix \o step.root))
       ELSE IF step.type = "leaf"
         THEN LET neighborPath == step.key
                  neighborNibble == nibble(neighborPath[nextCursor])
              IN IF Slice2(neighborPath, 0, cursor) # Slice2(proof.path, 0, cursor)
                      \/ nextCursor > Len(neighborPath)
                   THEN Failure
                 ELSE IF neighborNibble = thisNibble THEN Failure
                 ELSE IF ~includingItem /\ isLastStep
                   THEN LeafComputeHash(Slice(neighborPath, cursor), step.value)
                 ELSE root(thisNibble, me, neighborNibble,
                           LeafComputeHash(Slice(neighborPath, nextCursor), step.value))
       ELSE Failure

\* proof.verify(includingItem)
verify(proof, includingItem) == verifyLoop(proof, includingItem, 0, 0)

\* proof.toCBOR(): the proof as the on-chain verifier decodes it.  The key of
\* a Leaf step and the prefix of a Fork step go through their hex encoding;
\* the neighbors of a Branch step are the four digests, one after the other.
toCBOR(proof) ==
  [i \in 1..Len(proof.steps) |->
     LET step == proof.steps[i]
     IN IF step.type = "leaf"
          THEN LeafStep(step.skip, FromHex(step.key), step.value)
        ELSE IF step.type = "fork"
          THEN ForkStep(step.skip, FromHex(ToHex(step.prefix)), step.nibble, step.root)
        ELSE step] \o <<>>

\* ------------------------------------------------- on-chain: helpers.ak

\* combine(left, right); Failure when the validator halted in an argument.
combine(left, right) ==
  IF left = Failure \/ right = Failure THEN Failure ELSE digest(left \o right)

\* nibble(self, index) of helpers.ak, on bytes.
nibble_at(self, index) ==
  IF index % 2 = 0 THEN self[(index \div 2) + 1] \div 16
  ELSE self[(index \div 2) + 1] % 16

\* A variant of nibbles_between that also takes the nibble at 'end'.
RECURSIVE nibblesUpTo(_, _, _)
nibblesUpTo(path, start, end) ==
  IF start > end THEN <<>>
  ELSE << nibble_at(path, start) >> \o nibblesUpTo(path, start + 1, end)

\* nibbles(path, start, end) of helpers.ak, on bytes.
RECURSIVE nibbles_between(_, _, _)
nibbles_between(path, start, end) ==
  IF start >= end THEN <<>>
  ELSE << nibble_at(path, start) >> \o nibbles_between(path, start + 1, end)

\* suffix(path, cursor); Failure when nibble(path, cursor) reads past the path.
suffix(path, cursor) ==
  IF cursor % 2 = 0 THEN << 255 >> \o Slice(path, cursor \div 2)
  ELSE IF cursor \div 2 >= Len(path) THEN Failure
  ELSE << 0 >> \o << nibble_at(path, cursor) >> \o Slice(path, (cursor + 1) \div 2)

\* -------------------------------------------------- on-chain: merkling.ak

null_hash == NULL_HASH
null_hash_2 == combine(null_hash, null_hash)
null_hash_4 == combine(null_hash_2, null_hash_2)
null_hash_8 == combine(null_hash_4, null_hash_4)

merkle_4(branch, root, neighbor_2, neighbor_1) ==
  IF branch <= 1
    THEN combine(IF branch = 0 THEN combine(root, neighbor_1)
                 ELSE combine(neighbor_1, root),
                 neighbor_2)
    ELSE combine(neighbor_2,
                 IF branch = 2 THEN combine(root, neighbor_1)
                 ELSE combine(neighbor_1, root))

\* A variant of merkle_8 that puts neighbor_4 on the left in both halves.
merkle_8_left(branch, root, neighbor_4, neighbor_2, neighbor_1) ==
  IF branch <= 3
    THEN combine(neighbor_4, merkle_4(branch, root, neighbor_2, neighbor_1))
    ELSE combine(neighbor_4, merkle_4(branch - 4, root, neighbor_2, neighbor_1))

merkle_8(branch, root, neighbor_4, neighbor_2, neighbor_1) ==
  IF branch <= 3
    THEN combine(merkle_4(branch, root, neighbor_2, neighbor_1), neighbor_4)
    ELSE combine(neighbor_4, merkle_4(branch - 4, root, neighbor_2, neighbor_1))

merkle_16(branch, root, neighbor_8, neighbor_4, neighbor_2, neighbor_1) ==
  IF branch <= 7
    THEN combine(merkle_8(branch, root, neighbor_4, neighbor_2, neighbor_1), neighbor_8)
    ELSE combine(neighbor_8, merkle_8(branch - 8, root, neighbor_4, neighbor_2, neighbor_1))

\* A variant of sparse_merkle_4 that puts me_hash on the left whatever the
\* parity of me.
sparse_merkle_4_left(me, me_hash, neighbor, neighbor_hash) ==
  LET combine_me(x) == combine(me_hash, x)
      combine_neighbor(x) ==
        IF neighbor % 2 = 0 THEN combine(neighbor_hash, x) ELSE combine(x, neighbor_hash)
  IN IF me <= 1
       THEN IF neighbor <= 1
              THEN combine(combine_me(neighbor_hash), null_hash_2)
              ELSE combine(combine_me(null_hash), combine_neighbor(null_hash))
       ELSE IF neighbor >= 2
              THEN combine(null_hash_2, combine_me(neighbor_hash))
              ELSE combine(combine_neighbor(null_hash), combine_me(null_hash))

sparse_merkle_4(me, me_hash, neighbor, neighbor_hash) ==
  LET combine_me(x) == IF me % 2 = 0 THEN combine(me_hash, x) ELSE combine(x, me_hash)
      combine_neighbor(x) ==
        IF neighbor % 2 = 0 THEN combine(neighbor_hash, x) ELSE combine(x, neighbor_hash)
  IN IF me <= 1
       THEN IF neighbor <= 1
              THEN combine(combine_me(neighbor_hash), null_hash_2)
              ELSE combine(combine_me(null_hash), combine_neighbor(null_hash))
       ELSE IF neighbor >= 2
              THEN combine(null_hash_2, combine_me(neighbor_hash))
              ELSE combine(combine_neighbor(null_hash), combine_me(null_hash))

sparse_merkle_8(me, me_hash, neighbor, neighbor_hash) ==
  IF me <= 3
    THEN IF neighbor <= 3
           THEN combine(sparse_merkle_4(me, me_hash, neighbor, neighbor_hash), null_hash_4)
           ELSE combine(merkle_4(me, me_hash, null_hash_2, null_hash),
                        merkle_4(neighbor - 4, neighbor_hash, null_hash_2, null_hash))
    ELSE IF neighbor >= 4
           THEN combine(null_hash_4,
                        sparse_merkle_4(me - 4, me_hash, neighbor - 4, neighbor_hash))
           ELSE combine(merkle_4(neighbor, neighbor_hash, null_hash_2, null_hash),
                        merkle_4(me - 4, me_hash, null_hash_2, null_hash))

sparse_merkle_16(me, me_hash, neighbor, neighbor_hash) ==
  IF me <= 7
    THEN IF neighbor <= 7
           THEN combine(sparse_merkle_8(me, me_hash, neighbor, neighbor_hash), null_hash_8)
           ELSE combine(merkle_8(me, me_hash, null_hash_4, null_hash_2, null_hash),
                        merkle_8(neighbor - 8, neighbor_hash, null_hash_4, null_hash_2,
                                 null_hash))
    ELSE IF neighbor >= 8
           THEN combine(null_hash_8,
                        sparse_merkle_8(me - 8, me_hash, neighbor - 8, neighbor_hash))
           ELSE combine(merkle_8(neighbor, neighbor_hash, null_hash_4, null_hash_2, null_hash),
                        merkle_8(me - 8, me_hash, null_hash_4, null_hash_2, null_hash))

\* ------------------------------------ on-chain: merkle-patricia-forestry.ak

\* A Neighbor { nibble, prefix, root }.
Neighbor(nib, prefix, root) == [nibble |-> nib, prefix |-> prefix, root |-> root]

\* Whether bytearray.at(path, index / 2) is within the bytes of path.
InPath(path, index) == index \div 2 < Len(path)

\* do_branch; Failure when the validator halts.
do_branch(path, cursor, next_cursor, root, neighbors) ==
  IF root = Failure \/ ~InPath(path, next_cursor) \/ Len(neighbors) < 4 THEN Failure
  ELSE combine(nibbles_between(path, cursor, next_cursor),
               merkle_16(nibble_at(path, next_cursor), root,
                         neighbors[1], neighbors[2], neighbors[3], neighbors[4]))

\* do_fork; Failure when the validator halts (expect branch != neighbor.nibble).
do_fork(path, cursor, next_cursor, root, neighbor) ==
  IF root = Failure \/ ~InPath(path, next_cursor) THEN Failure
  ELSE IF nibble_at(path, next_cursor) = neighbor.nibble THEN Failure
  ELSE combine(nibbles_between(path, cursor, next_cursor),
               sparse_merkle_16(nibble_at(path, next_cursor), root, neighbor.nibble,
                                combine(neighbor.prefix, neighbor.root)))

RECURSIVE do_including(_, _, _, _)
do_including(path, value, cursor, proof) ==
  IF proof = <<>> THEN combine(suffix(path, cursor), value)
  ELSE
    LET step == Head(proof)
        steps == Tail(proof)
        next_cursor == cursor + step.skip
        root == do_including(path, value, next_cursor + 1, steps)
    IN IF step.type = "branch"
         THEN do_branch(path, cursor, next_cursor, root, step.neighbors)
       ELSE IF step.type = "fork"
         THEN do_fork(path, cursor, next_cursor, root,
                      Neighbor(step.nibble, step.prefix, step.root))
       ELSE IF ~InPath(step.key, next_cursor) THEN Failure
       ELSE do_fork(path, cursor, next_cursor, root,
                    Neighbor(nibble_at(step.key, next_cursor),
                             suffix(step.key, next_cursor + 1), step.value))

RECURSIVE do_excluding(_, _, _)
do_excluding(path, cursor, proof) ==
  IF proof = <<>> THEN null_hash
  ELSE
    LET step == Head(proof)
        steps == Tail(proof)
        next_cursor == cursor + step.skip
        root == do_excluding(path, next_cursor + 1, steps)
    IN IF step.type = "branch"
         THEN do_branch(path, cursor, next_cursor, root, step.neighbors)
       ELSE IF step.type = "fork"
         THEN IF steps = <<>>
                THEN LET neighbor_prefix == << step.nibble >> \o step.prefix
                         prefix == IF step.skip = 0 THEN neighbor_prefix
                                   ELSE IF ~InPath(path, cursor + step.skip - 1) THEN Failure
                                   ELSE nibbles_between(path, cursor, cursor + step.skip)
                                          \o neighbor_prefix
                     IN combine(prefix, step.root)
                ELSE do_fork(path, cursor, next_cursor, root,
                             Neighbor(step.nibble, step.prefix, step.root))
       ELSE IF steps = <<>> THEN combine(suffix(step.key, cursor), step.value)
       ELSE IF ~InPath(step.key, next_cursor) THEN Failure
       ELSE do_fork(path, cursor, next_cursor, root,
                    Neighbor(nibble_at(step.key, next_cursor),
                             suffix(step.key, next_cursor + 1), step.value))

\* A variant of including whose leaf does not hold the value it is given.
includingAnyValue(k, v, proof) == do_including(KeyDigest(k), digest(ValueBuf(1)), 0, proof)

\* including / excluding of the on-chain verifier, on blake2b_256(key) and
\* blake2b_256(value).
including(k, v, proof) == do_including(KeyDigest(k), digest(ValueBuf(v)), 0, proof)
excluding(k, proof) == do_excluding(KeyDigest(k), 0, proof)

\* The on-chain operations on a root; the modifying ones give Failure when
\* the validator halts.
has(self, k, v, proof) == including(k, v, proof) = self
miss(self, k, proof) == excluding(k, proof) = self
insert(self, k, v, proof) ==
  IF excluding(k, proof) # self THEN Failure ELSE including(k, v, proof)
\* A variant of delete without the check of the element.
deleteUnchecked(self, k, v, proof) == excluding(k, proof)

delete(self, k, v, proof) ==
  IF including(k, v, proof) # self THEN Failure ELSE excluding(k, proof)
update(self, k, proof, old_value, new_value) ==
  IF including(k, old_value, proof) # self THEN Failure
  ELSE including(k, new_value, proof)

\* ------------------------------------------------------------ the system

VARIABLES
  trie,     \* the trie object the caller holds
  db,       \* the content of the trie's store
  content,  \* the pairs the caller has put in the trie: key -> value, 0 if none
  last,     \* the last call: its name, arguments and outcome, the proof it
            \* returned or was given, and what the properties compare with
  store,    \* the 'store' property of the trie object: 1 for the Store the
            \* trie was made with, 2 for another Store, 0 for no property
  batch,    \* the #batch of the trie's Store, and whether there is one
  calls,    \* the calls that were not awaited: their arguments, their local
            \* variables, where they stand and how they ended
  pure,     \* a function of the library applied outside any trie: its name,
            \* its arguments and its result
  fetched   \* whether the children of the trie object are the Trie objects
            \* fetchChildren() loaded, and not { hash } handles

vars == << trie, db, content, last, store, batch, calls, pure, fetched >>

\* What the awaited calls leave alone.
async == << store, batch, calls, pure, fetched >>

\* No function applied yet.
NoApplication == [fn |-> "none", args |-> <<>>, result |-> <<>>]

\* Store.#batch: undefined (open = FALSE) or the operations queued.
NoBatch == [open |-> FALSE, ops |-> <<>>]

NoContent == [k \in Keys |-> 0]

Present == {k \in Keys : content[k] # 0}

\* The record of a call.  'before' is, for insert and delete, the root before
\* the call (before the insert that a delete undoes, when roundTrip is set),
\* and for prove the root of the trie built from the same elements without
\* the key.  'fresh' tells an insert of a key that was absent.  'inserts'
\* counts the elements inserted into a new Trie() when nothing else was done
\* to it, and is 0 otherwise.
Call(op, key, value, ok, before, fresh, roundTrip, inserts, proof) ==
  [op |-> op, key |-> key, value |-> value, ok |-> ok, before |-> before,
   fresh |-> fresh, roundTrip |-> roundTrip, inserts |-> inserts, proof |-> proof]

\* new Trie()
Init ==
  /\ trie = NewTrie
  /\ db = EmptyDb
  /\ content = NoContent
  /\ last = Call("new", 0, 0, TRUE, NULL_HASH, FALSE, FALSE, 0, NoProof)
  /\ store = 1
  /\ batch = NoBatch
  /\ calls = <<>>
  /\ pure = NoApplication
  /\ fetched = FALSE

\* await Trie.fromList(elements), in place of the new Trie()
DoFromList ==
  \E ks \in SUBSET Keys : \E val \in [Keys -> Values] :
    LET Built(r) ==
          /\ trie' = r.trie
          /\ db' = r.db
          /\ content' = [k \in Keys |-> IF k \in ks THEN val[k] ELSE 0]
          /\ last' = Call("fromList", 0, 0, r.ok, NULL_HASH, FALSE, FALSE, 0, NoProof)
    IN /\ last.op = "new"
       /\ ks # {}
       /\ Cardinality(ks) <= MaxSize
       /\ Built(FromList(ks, val))
       /\ UNCHANGED async

\* await trie.insert(key, value)
DoInsert ==
  \E k \in Keys : \E v \in Values :
    LET fresh == content[k] = 0
        Inserted(r) ==
          /\ trie' = r.trie
          /\ db' = r.db
          /\ content' = IF fresh THEN [content EXCEPT ![k] = v] ELSE content
          /\ last' = Call("insert", k, v, r.ok, RootOf(trie), fresh, FALSE,
                          IF fresh /\ last.inserts = Cardinality(Present)
                            THEN last.inserts + 1 ELSE 0,
                          NoProof)
    IN /\ ~fresh \/ Cardinality(Present) < MaxSize
       /\ Inserted(Insert(trie, db, k, v))
       /\ UNCHANGED async

\* await trie.delete(key)
DoDelete ==
  \E k \in Keys :
    LET undoes == last.op = "insert" /\ last.key = k /\ last.fresh
        Deleted(r) ==
          /\ trie' = r.trie
          /\ db' = r.db
          /\ last' = Call("delete", k, 0, r.ok,
                          IF undoes THEN last.before ELSE RootOf(trie), FALSE, undoes, 0,
                          NoProof)
    IN /\ Deleted(Delete(trie, db, k))
       /\ content' = [content EXCEPT ![k] = 0]
       /\ UNCHANGED async

\* await trie.prove(key)
DoProve ==
  \E k \in Keys :
    LET Proved(p) ==
          last' = Call("prove", k, content[k], p # <<>>,
                       RootOf(FromList(Present \ {k}, content).trie), FALSE, FALSE, 0,
                       IF p = <<>> THEN NoProof ELSE p[1])
    IN /\ Proved(prove(trie, db, k))
       /\ UNCHANGED << trie, db, content, async >>

Next == DoFromList \/ DoInsert \/ DoDelete \/ DoProve

Spec == Init /\ [][Next]_vars

\* ------------------------------------------------- proofs from an adversary

\* has, miss, insert and delete take any list of steps.  The adversary holds
\* the proof that prove returned for an element of the trie and the nodes
\* of the store, and hands over the proof with one alteration.

\* The cursor at which step i of a proof starts.
RECURSIVE CursorAt(_, _)
CursorAt(steps, i) ==
  IF i <= 1 THEN 0 ELSE CursorAt(steps, i - 1) + 1 + steps[i - 1].skip

\* The Branch nodes from a node down a path, as Branch.walk visits them.
RECURSIVE levels(_, _, _)
levels(d, node, path) ==
  IF node.kind # "Branch" THEN <<>>
  ELSE LET rest == Slice(path, Len(node.prefix))
       IN << node >> \o levels(d, Fetched(d, node)[nibble(rest[1]) + 1], Slice(rest, 1))

Forged(op, steps) ==
  [last EXCEPT !.op = op, !.proof = Proof(last.proof.path, last.proof.value, steps)]

Honest == last.op = "prove" /\ last.ok

\* One step of the proof is given another skip.
AlterSkip ==
  \E i \in 1..Len(last.proof.steps) : \E s \in 0..(PathLen - 1) :
    /\ Honest
    /\ s # last.proof.steps[i].skip
    /\ last' = Forged("alterSkip", [last.proof.steps EXCEPT ![i].skip = s])
    /\ UNCHANGED << trie, db, content, async >>

\* A Leaf step made of a leaf of the store is added at the end of the proof.
AppendLeaf ==
  \E x \in DOMAIN db :
    /\ Honest
    /\ db[x].kind = "Leaf"
    /\ last' = Forged("appendLeaf",
                      Append(last.proof.steps,
                             LeafStep(0, intoPath(db[x].key), digest(ValueBuf(db[x].value)))))
    /\ UNCHANGED << trie, db, content, async >>

\* A Leaf or Fork step is replaced by the Branch step of the same level.
AsBranch ==
  \E i \in 1..Len(last.proof.steps) :
    LET step == last.proof.steps[i]
        level == levels(db, trie, last.proof.path)[i]
        me == nibble(last.proof.path[CursorAt(last.proof.steps, i) + step.skip + 1])
    IN /\ Honest
       /\ step.type # "branch"
       /\ last' = Forged("asBranch",
                         [last.proof.steps EXCEPT
                            ![i] = BranchStep(step.skip, merkleProof(level.children, me))])
       /\ UNCHANGED << trie, db, content, async >>

\* The proof is replaced by one Fork step that splits the prefix of the root
\* Branch at j into a skip, a nibble and a prefix.
RootAsFork ==
  \E j \in 0..(PathLen - 1) :
    /\ Honest
    /\ trie.kind = "Branch"
    /\ j < Len(trie.prefix)
    /\ last' = Forged("rootAsFork",
                      << ForkStep(j, nibbles(Slice(trie.prefix, j + 1)),
                                  nibble(trie.prefix[j + 1]),
                                  merkleRoot(trie.children)) >>)
    /\ UNCHANGED << trie, db, content, async >>

\* The last step of the proof is left out.
Truncate ==
  /\ Honest
  /\ last.proof.steps # <<>>
  /\ last' = Forged("truncate",
                    SubSeq(last.proof.steps, 1, Len(last.proof.steps) - 1))
  /\ UNCHANGED << trie, db, content, async >>

\* The key of a Leaf step is given another nibble at a position below the
\* cursor at which the step starts.
AlterKey ==
  \E i \in 1..Len(last.proof.steps) : \E p \in 1..PathLen : \E n \in 0..(Radix - 1) :
    /\ Honest
    /\ last.proof.steps[i].type = "leaf"
    /\ p <= CursorAt(last.proof.steps, i)
    /\ n # last.proof.steps[i].key[p]
    /\ last' = Forged("alterKey", [last.proof.steps EXCEPT ![i].key[p] = n])
    /\ UNCHANGED << trie, db, content, async >>

Forge == AlterSkip \/ AppendLeaf \/ AsBranch \/ RootAsFork \/ Truncate \/ AlterKey

NextAdv == Next \/ Forge

SpecAdv == Init /\ [][NextAdv]_vars

\* ------------------------------------------------ calls that are not awaited

\* trie.insert and trie.delete are async functions: a call runs up to its
\* first await and the caller goes on, and each later await gives the turn
\* to whatever else is ready.  A call that is not awaited is followed here
\* from one await to the next; a second call is started while the first is
\* suspended.  The callback of a Store.batch is taken in two steps, up to the
\* end of its first fetchChildren() and from there on.

\* An object after Trie.into deleted its own properties: the prototype alone.
Bare(kind) == Node(kind, Undefined, Undefined, 0, 0, 0, <<>>, FALSE)

\* The constructor's default, store = new Store(), for a store that is
\* undefined.  What another Store holds is never read by the two calls.
StoreOr(s) == IF s = 0 THEN 2 ELSE s

\* A call and its local variables: what Trie.into kept of the object
\* (previousHash, isRoot), the node target.from made and its store, the two
\* paths and the two leaves of Leaf.insert, and whether the call is in the
\* catch of Branch.insert or Branch.delete and will throw again.
Started(op, k, v) ==
  [op |-> op, key |-> k, value |-> v, pc |-> "start", outcome |-> "pending",
   rethrow |-> FALSE, previousHash |-> Undefined, isRoot |-> FALSE,
   made |-> NoNode, madeStore |-> 0, thisPath |-> <<>>, newPath |-> <<>>,
   mine |-> NoNode, theirs |-> NoNode]

\* What a step of a call works on and leaves behind.
Running(t, s, d, b, f, c) ==
  [trie |-> t, store |-> s, db |-> d, batch |-> b, fetched |-> f, call |-> c]

\* The call throws (its promise rejects).
Threw(st) == [st EXCEPT !.call.outcome = "threw", !.call.pc = "done"]

\* The call is over: it returns, or throws again what it caught.
Settled(st) ==
  [st EXCEPT !.call.outcome = IF st.call.rethrow THEN "threw" ELSE "returned",
             !.call.pc = "done"]

\* Store.put / Store.del on the store s: queued when the Store has a #batch,
\* written otherwise.
StoreWrite(st, s, ops) ==
  IF s # 1 THEN st
  ELSE IF st.batch.open THEN [st EXCEPT !.batch.ops = st.batch.ops \o ops]
  ELSE [st EXCEPT !.db = DbBatch(st.db, ops)]

\* Trie.save(previousHash), from the test of isRoot on.
SaveRoot(st) ==
  IF st.trie.isRoot
    THEN Settled(StoreWrite(st, st.store,
                            << Put(ROOT_KEY, Blob("Root", <<>>, 0, 0, <<>>, 0,
                                                  ToHex(IF st.trie.hash \in {Null, Undefined}
                                                          THEN NULL_HASH
                                                          ELSE st.trie.hash))) >>))
    ELSE Settled(st)

\* Trie.save(previousHash), up to the await of store.del.
SaveDel(st) ==
  IF st.call.previousHash = Undefined THEN SaveRoot(st)
  ELSE IF st.store = 0 \/ TrieSaveThrows(st.call.previousHash) THEN Threw(st)
  ELSE [StoreWrite(st, st.store, << Del(st.call.previousHash) >>) EXCEPT !.call.pc = "root"]

\* Leaf.save / Branch.save of the object as it is, up to the await of
\* store.put; Trie.save for an object whose prototype is Trie.  Branch.save
\* puts { hash } handles in the place of the children.
SaveSelf(st) ==
  LET Put1(saved) ==
        [StoreWrite([st EXCEPT !.trie = saved.node,
                               !.fetched = IF saved.node.kind = "Branch" THEN FALSE ELSE @],
                    st.store, << saved.ops[1] >>)
           EXCEPT !.call.pc = "save"]
  IN IF st.trie.kind = "Leaf"
       THEN IF st.trie.value = 0 THEN Threw(st) ELSE Put1(LeafSave(st.trie, Undefined))
     ELSE IF st.trie.kind = "Branch"
       THEN IF st.trie.children = <<>> THEN Threw(st)
            ELSE Put1(BranchSave(st.trie, Undefined))
     ELSE SaveDel(st)

\* Trie.into(target, ...args), up to the await of target.from: the store,
\* the hash and isRoot of the object are kept, its prototype becomes the
\* target's, its own properties are deleted, and target.from makes the node
\* 'made' and saves it with 'ops'.
IntoStart(st, made, ops) ==
  [StoreWrite([st EXCEPT !.trie = Bare(made.kind), !.store = 0], StoreOr(st.store), ops)
     EXCEPT !.call.previousHash = st.trie.hash,
            !.call.isRoot = st.trie.isRoot,
            !.call.made = made,
            !.call.madeStore = StoreOr(st.store),
            !.call.pc = "assign"]

\* Trie.into, from Object.assign(this, made) on: the properties of 'made'
\* are set on the object, which keeps its other properties and its
\* prototype; isRoot is set back and the object is saved.
IntoAssign(st) ==
  LET made == st.call.made
  IN SaveSelf([st EXCEPT
                 !.trie = [st.trie EXCEPT
                             !.hash = made.hash,
                             !.prefix = made.prefix,
                             !.size = made.size,
                             !.isRoot = st.call.isRoot,
                             !.key = IF made.kind = "Leaf" THEN made.key ELSE @,
                             !.value = IF made.kind = "Leaf" THEN made.value ELSE @,
                             !.children = IF made.kind = "Branch" THEN made.children ELSE @],
                 !.store = st.call.madeStore])

\* Trie.insert(key, value): this.into(Leaf, intoPath(key), key, value)
StartTrieInsert(st) ==
  LET Made(leaf) == IntoStart(st, leaf.node, leaf.ops)
  IN Made(LeafFrom(intoPath(st.call.key), st.call.key, st.call.value))

\* Leaf.insert(key, value), up to the await of the first Leaf.from.
StartLeafInsert(st) ==
  LET thisPath == st.trie.prefix
      full == intoPath(st.call.key)
      newPath == Slice(full, Len(full) - Len(thisPath))
      Made(mine) ==
        IF ~mine.ok THEN Threw(st)
        ELSE [StoreWrite(st, StoreOr(st.store), mine.ops)
                EXCEPT !.call.thisPath = thisPath, !.call.newPath = newPath,
                       !.call.mine = mine.node, !.call.pc = "leafFrom"]
  IN IF thisPath = Undefined \/ Len(thisPath) = 0 \/ thisPath = newPath \/ st.trie.key = 0
       THEN Threw(st)
     ELSE Made(LeafFrom(leafSuffix(thisPath, commonPrefix(thisPath, newPath)),
                        st.trie.key, st.trie.value))

\* Leaf.insert, the second Leaf.from, with the store the object has by now.
LeafFromNew(st) ==
  LET c == st.call
      Made(theirs) ==
        [StoreWrite(st, StoreOr(st.store), theirs.ops)
           EXCEPT !.call.theirs = theirs.node, !.call.pc = "into"]
  IN Made(LeafFrom(leafSuffix(c.newPath, commonPrefix(c.thisPath, c.newPath)),
                   c.key, c.value))

\* Leaf.insert, this.into(Branch, prefix, { [thisNibble]: ..., [newNibble]: ... })
IntoBranch(st) ==
  LET c == st.call
      prefix == commonPrefix(c.thisPath, c.newPath)
      thisNibble == nibble(c.thisPath[Len(prefix) + 1])
      newNibble == nibble(c.newPath[Len(prefix) + 1])
      Made(branch) == IntoStart(st, branch.node, branch.ops)
  IN Made(BranchFrom(prefix,
                     sparseVector(thisNibble, c.mine.hash, newNibble, c.theirs.hash),
                     sparseSizes(thisNibble, 1, newNibble, 1)))

\* Leaf.delete(key), up to the await of Trie.from: this.into(Trie)
StartLeafDelete(st) ==
  IF st.trie.key = 0 \/ st.trie.key # st.call.key THEN Threw(st)
  ELSE IntoStart(st, NewTrie, TrieSaveOps(NewTrie, Undefined))

\* The catch of Branch.insert and Branch.delete: this.save(), then throw.
CatchSave(st) == SaveSelf([st EXCEPT !.call.rethrow = TRUE])

\* Branch.insert / Branch.delete, up to the first await of the callback:
\* Store.batch asserts that no batch is ongoing.
StartBranch(st) ==
  IF st.store # 1 THEN Threw(st)
  ELSE IF st.batch.open THEN CatchSave(st)
  ELSE [st EXCEPT !.batch = [open |-> TRUE, ops |-> <<>>], !.call.pc = "body"]

\* The callback of Store.batch, up to the end of the first
\* await node.fetchChildren(): the children of the object are Trie objects.
\* When fetchChildren throws the batch is dropped.
BatchFetch(st) ==
  IF CanFetch(st.db, st.trie) THEN [st EXCEPT !.fetched = TRUE, !.call.pc = "loop"]
  ELSE CatchSave([st EXCEPT !.batch = NoBatch])

\* Whether Branch.insert finds, at the object itself, an empty slot for the
\* new Leaf: the path goes on after the whole prefix, into no child.
Vacant(node, fullPath) ==
  LET prefix == IF Len(node.prefix) > 0 THEN commonPrefix(node.prefix, fullPath) ELSE <<>>
  IN /\ Len(prefix) = Len(node.prefix)
     /\ Len(prefix) < Len(fullPath)
     /\ node.children[nibble(fullPath[Len(prefix) + 1]) + 1] = NoChild

\* The callback of Store.batch from there on: the loop down the trie and
\* the saves, the last of which leaves handles for children.  When it throws
\* the batch is dropped.  Over children that are handles by now, the loop
\* throws (Branch.from asserts Trie objects, and a handle has no prefix to
\* go down with) unless it only sets a new Leaf in an empty slot.
BatchBody(st) ==
  LET c == st.call
      Done(r) ==
        IF r.ok THEN [st EXCEPT !.trie = r.node, !.fetched = FALSE,
                                !.batch.ops = st.batch.ops \o r.ops,
                                !.call.pc = "flush"]
        ELSE CatchSave([st EXCEPT !.batch = NoBatch])
  IN IF ~st.fetched /\ ~(c.op = "insert" /\ Vacant(st.trie, intoPath(c.key)))
       THEN CatchSave([st EXCEPT !.batch = NoBatch])
     ELSE IF c.op = "insert" THEN Done(BranchInsertLoop(st.db, st.trie, intoPath(c.key),
                                                        c.key, c.value))
     ELSE Done(BranchDeleteLoop(st.db, st.trie, intoPath(c.key), c.key))

\* Store.batch, after the callback: this.#db.batch(this.#batch)
BatchFlush(st) ==
  Settled([st EXCEPT !.db = DbBatch(st.db, st.batch.ops), !.batch = NoBatch])

\* Store.batch, after the callback, when the database rejects the write:
\* nothing is written, #batch is left as it is and Store.batch throws, into
\* the catch of Branch.insert or Branch.delete.
BatchFails(st) == CatchSave(st)

\* The call by the prototype of the object, up to its first await.
Dispatch(st) ==
  IF st.trie.kind = "Branch" THEN StartBranch(st)
  ELSE IF st.trie.kind = "Leaf"
    THEN IF st.call.op = "insert" THEN StartLeafInsert(st) ELSE StartLeafDelete(st)
  ELSE IF st.call.op = "insert" THEN StartTrieInsert(st)
  ELSE Threw(st)

\* The state after call i made the step that gave st.
After(i, st) ==
  /\ trie' = st.trie
  /\ store' = st.store
  /\ db' = st.db
  /\ batch' = st.batch
  /\ fetched' = st.fetched
  /\ calls' = IF i > Len(calls) THEN Append(calls, st.call)
              ELSE [calls EXCEPT ![i] = st.call]
  /\ UNCHANGED << content, last, pure >>

At(i) == Running(trie, store, db, batch, fetched, calls[i])

Suspended(i, pc) == calls[i].outcome = "pending" /\ calls[i].pc = pc

\* trie.insert(key, value) or trie.delete(key) without await: the first call
\* at any time, the second while the first is suspended.
StartCall ==
  \E op \in {"insert", "delete"} : \E k \in Keys : \E v \in Values :
    /\ calls = <<>> \/ (Len(calls) = 1 /\ calls[1].outcome = "pending")
    /\ op = "delete" => v = 1
    /\ After(Len(calls) + 1, Dispatch(Running(trie, store, db, batch, fetched,
                                               Started(op, k, v))))

ResumeLeafFrom == \E i \in 1..Len(calls) : Suspended(i, "leafFrom") /\ After(i, LeafFromNew(At(i)))

ResumeInto == \E i \in 1..Len(calls) : Suspended(i, "into") /\ After(i, IntoBranch(At(i)))

ResumeAssign == \E i \in 1..Len(calls) : Suspended(i, "assign") /\ After(i, IntoAssign(At(i)))

ResumeSave == \E i \in 1..Len(calls) : Suspended(i, "save") /\ After(i, SaveDel(At(i)))

ResumeRoot == \E i \in 1..Len(calls) : Suspended(i, "root") /\ After(i, SaveRoot(At(i)))

ResumeFetch == \E i \in 1..Len(calls) : Suspended(i, "body") /\ After(i, BatchFetch(At(i)))

ResumeBody == \E i \in 1..Len(calls) : Suspended(i, "loop") /\ After(i, BatchBody(At(i)))

ResumeFlush == \E i \in 1..Len(calls) : Suspended(i, "flush") /\ After(i, BatchFlush(At(i)))

\* The trie the calls are made on: new Trie(), or Trie.fromList of one to
\* MaxSize - 1 elements.
InitAsync ==
  \E ks \in SUBSET Keys : \E val \in [Keys -> Values] :
    LET Built(r) ==
          /\ trie = r.trie
          /\ db = r.db
    IN /\ Cardinality(ks) < MaxSize
       /\ IF ks = {} THEN trie = NewTrie /\ db = EmptyDb ELSE Built(FromList(ks, val))
       /\ content = [k \in Keys |-> IF k \in ks THEN val[k] ELSE 0]
       /\ last = Call("new", 0, 0, TRUE, NULL_HASH, FALSE, FALSE, 0, NoProof)
       /\ store = 1
       /\ batch = NoBatch
       /\ calls = <<>>
       /\ pure = NoApplication
       /\ fetched = FALSE

\* The database may fail to write: this.#db.batch(this.#batch) rejects.
FailFlush == \E i \in 1..Len(calls) : Suspended(i, "flush") /\ After(i, BatchFails(At(i)))

NextAsync ==
  \/ StartCall
  \/ ResumeLeafFrom
  \/ ResumeInto
  \/ ResumeAssign
  \/ ResumeSave
  \/ ResumeRoot
  \/ ResumeFetch
  \/ ResumeBody
  \/ ResumeFlush
  \/ FailFlush

SpecAsync == InitAsync /\ [][NextAsync]_vars


\* ------------------------------------------- functions applied on their own

\* The functions of the library that take no trie are applied here to
\* arguments drawn from small sets, once from the initial state; the trie
\* and its store stay as new.

\* Hashes to apply the Merkle functions to: NULL_HASH and two digests.
SomeHashes == {NULL_HASH, digest(<< 1 >>), digest(<< 2 >>)}

Nibbles == 0..(Radix - 1)

Applied(fn, args, result) == [fn |-> fn, args |-> args, result |-> result]

\* sparse_merkle_16(me, me_hash, neighbor, neighbor_hash), as do_fork calls
\* it for a Branch of two children.
ApplySparse ==
  \E me \in Nibbles : \E neighbor \in Nibbles \ {me} :
    \E a \in SomeHashes : \E b \in SomeHashes :
      /\ pure = NoApplication
      /\ pure' = Applied("sparse_merkle_16",
                         [me |-> me, me_hash |-> a, neighbor |-> neighbor,
                          neighbor_hash |-> b],
                         sparse_merkle_16(me, a, neighbor, b))
      /\ UNCHANGED << trie, db, content, last, store, batch, calls, fetched >>

\* The steps the proofs applied here are made of: Branch steps within the
\* path and past its end, Fork steps on the nibbles 1 and 2 (every path
\* starts with one of them), and Leaf steps with the paths of two keys.
SomeSteps ==
  {BranchStep(skip, << NULL_HASH, digest(<< 1 >>), NULL_HASH, digest(<< 2 >>) >>) :
     skip \in {0, PathLen}}
  \cup {ForkStep(skip, << 3 >>, nib, digest(<< 1 >>)) : skip \in {0, 1}, nib \in {1, 2}}
  \cup {LeafStep(0, intoPath(k), digest(ValueBuf(1))) : k \in {1, 2}}

\* The longest list of steps applied.
MaxSteps == 2

\* The lists of at most n of these steps.
RECURSIVE ProofsUpTo(_)
ProofsUpTo(n) ==
  IF n = 0 THEN {<<>>}
  ELSE ProofsUpTo(n - 1)
         \cup {Append(steps, a) : steps \in ProofsUpTo(n - 1), a \in SomeSteps}

SomeProofs == ProofsUpTo(MaxSteps)

\* Both verifiers on one proof: proof.verify(includingItem) on the Proof of
\* the path, value (0 for undefined) and steps, and including / excluding
\* on the same steps as toCBOR writes them.
BothVerify(k, v, including_, steps) ==
  LET On(cbor) == IF including_ THEN including(k, v, cbor) ELSE excluding(k, cbor)
  IN [off |-> verify(Proof(intoPath(k), v, steps), including_),
      on |-> On(toCBOR(Proof(intoPath(k), v, steps)))]

ApplyVerify ==
  \E k \in Keys : \E v \in 0..1 : \E including_ \in BOOLEAN : \E steps \in SomeProofs :
    /\ pure = NoApplication
    /\ pure' = Applied("verify",
                       [key |-> k, value |-> v, including |-> including_, steps |-> steps],
                       BothVerify(k, v, including_, steps))
    /\ UNCHANGED << trie, db, content, last, store, batch, calls, fetched >>

\* The most children a vector of children has when it is not full.
MaxPopulated == 2

\* Vectors of 16 children: up to MaxPopulated slots hold a hash, or all do;
\* the hashes of two slots differ.
SomeChildren ==
  {[i \in 1..Radix |-> IF i \in slots THEN digest(<< i >>) ELSE NoChild] \o <<>> :
     slots \in {x \in SUBSET (1..Radix) : Cardinality(x) <= MaxPopulated} \cup {1..Radix}}

\* The Merkle root of the children, and the root rebuilt from children[me]
\* and merkleProof(children, me): 'off' by the table of Proof.verify, 'on'
\* by merkle_16 with the neighbors in the order of the proof.
Rebuilt(children, me) ==
  LET mine == IF children[me + 1] = NoChild THEN NULL_HASH ELSE children[me + 1]
      Both(n) == [root |-> merkleRoot(children),
                  off |-> branchMerkle(me, mine, n[1], n[2], n[3], n[4]),
                  on |-> merkle_16(me, mine, n[1], n[2], n[3], n[4])]
  IN Both(merkleProof(children, me))

ApplyRebuild ==
  \E children \in SomeChildren : \E me \in Nibbles :
    /\ pure = NoApplication
    /\ pure' = Applied("rebuild", [children |-> children, me |-> me], Rebuilt(children, me))
    /\ UNCHANGED << trie, db, content, last, store, batch, calls, fetched >>

NextPure == ApplySparse \/ ApplyVerify \/ ApplyRebuild

SpecPure == Init /\ [][NextPure]_vars

\* ----------------------------------------------------------- properties

InclusionSoundness ==
  last.op = "prove" /\ content[last.key] # 0 =>
    /\ last.ok
    /\ verify(last.proof, TRUE) = RootOf(trie)
    /\ has(RootOf(trie), last.key, content[last.key], toCBOR(last.proof))

\* An element two levels down was proved.
InclusionSoundnessWitness ==
  last.op = "prove" /\ last.ok /\ Len(last.proof.steps) = 2

\* C3: prove of a key that is absent from the trie returns a proof, and miss
\* holds for the key and that proof on the root of the trie.
ExclusionSoundness ==
  last.op = "prove" /\ content[last.key] = 0 =>
    /\ last.ok
    /\ miss(RootOf(trie), last.key, toCBOR(last.proof))

\* The values a caller may claim for a key: the stored ones and one more.
ClaimedValues == 1..(NumValues + 1)

\* The proof at hand, presented for key k and value v.
Presented(k, v) == Proof(intoPath(k), v, last.proof.steps)

\* The last operation returned or forged a proof of an element; last.before
\* is then the root of the trie without that element.
AtProof == last.op \notin {"new", "fromList", "insert", "delete"} /\ last.ok

\* The content of the trie without the element of the proof.
Without == [content EXCEPT ![last.key] = 0]

\* C4: whatever the steps, verification excluding k gives the root of a
\* trie only if k is absent from that trie: off-chain with
\* proof.verify(false), on-chain with miss.
MissOnlyIfAbsent ==
  \A k \in Keys :
    LET p == Presented(k, 1)
    IN (verify(p, FALSE) = RootOf(trie) \/ miss(RootOf(trie), k, toCBOR(p)))
         => content[k] = 0

\* C5: whatever the steps, verification including (k, v) gives the root of
\* a trie only if the trie maps k to v: off-chain with proof.verify(true),
\* on-chain with has; both for the trie and for the trie without the element
\* of the proof.
HasOnlyIfMapped ==
  \A k \in Keys : \A v \in ClaimedValues :
    LET p == Presented(k, v)
    IN /\ (verify(p, TRUE) = RootOf(trie) \/ has(RootOf(trie), k, v, toCBOR(p)))
            => content[k] = v
       /\ AtProof /\ (verify(p, TRUE) = last.before \/ has(last.before, k, v, toCBOR(p)))
            => Without[k] = v

\* A forged proof with a Branch step in place of a Leaf step still shows the
\* element, and shows it with no other value.
HasOnlyIfMappedWitness ==
  /\ last.op = "asBranch"
  /\ has(RootOf(trie), last.key, content[last.key], toCBOR(last.proof))
  /\ ~has(RootOf(trie), last.key, content[last.key] + 1, toCBOR(last.proof))

\* The root of the canonical trie of content c with k set to v.
RootWith(c, k, v) ==
  LET d == [c EXCEPT ![k] = v]
  IN RootOf(FromList({x \in Keys : d[x] # 0}, d).trie)

\* C6: whatever the steps, when verification excluding k gives the root of
\* a trie, verification including (k, v) gives the root of that trie with
\* (k, v) inserted: off-chain with proof.verify, on-chain with insert.
InsertFromExclusion ==
  \A k \in Keys : \A v \in ClaimedValues :
    LET p == Presented(k, v)
        r == insert(RootOf(trie), k, v, toCBOR(p))
        r0 == insert(last.before, k, v, toCBOR(p))
    IN /\ r # Failure => r = RootWith(content, k, v)
       /\ verify(p, FALSE) = RootOf(trie) /\ verify(p, TRUE) # Failure
            => verify(p, TRUE) = RootWith(content, k, v)
       /\ AtProof /\ r0 # Failure => r0 = RootWith(Without, k, v)
       /\ AtProof /\ verify(p, FALSE) = last.before /\ verify(p, TRUE) # Failure
            => verify(p, TRUE) = RootWith(Without, k, v)

\* C7: whatever the steps, an on-chain delete that succeeds was given an
\* element of the trie and returns the root of the trie without it, on which
\* miss holds for the key and the same proof.
DeleteCanonical ==
  \A k \in Keys : \A v \in ClaimedValues :
    LET steps == toCBOR(Presented(k, v))
        r == delete(RootOf(trie), k, v, steps)
    IN r # Failure =>
         /\ content[k] = v
         /\ r = RootWith(content, k, 0)
         /\ miss(r, k, steps)

\* C8: a proof with the skip of one step changed does not verify, excluding
\* the element, to what the proof verified to: off-chain with
\* proof.verify(false), on-chain with excluding.
SkipNonMalleable ==
  last.op = "alterSkip" =>
    LET orig == prove(trie, db, last.key)[1]
    IN /\ verify(last.proof, FALSE) # verify(orig, FALSE)
       /\ excluding(last.key, toCBOR(last.proof)) # excluding(last.key, toCBOR(orig))

\* C9: the proof of an element (k, v) of a trie verifies, including the
\* element, to the root of the trie, and excluding it to the root of the
\* trie without k: off-chain with proof.verify, on-chain with including and
\* excluding.
InsertViaProof ==
  last.op = "prove" /\ last.ok =>
    /\ verify(last.proof, TRUE) = RootOf(trie)
    /\ including(last.key, last.value, toCBOR(last.proof)) = RootOf(trie)
    /\ verify(last.proof, FALSE) = last.before
    /\ excluding(last.key, toCBOR(last.proof)) = last.before

Handles(k, v) ==
  {RootOf(trie), last.before, including(k, v, toCBOR(Presented(k, v)))} \ {Failure}

\* C12: whatever the handle, the key, the values and the steps, the on-chain
\* update gives what delete with the old value followed by insert with the
\* new value gives, with the same proof: the same root, or both halt.
UpdateIsDeleteInsert ==
  \A k \in Keys : \A old \in ClaimedValues : \A new \in ClaimedValues :
    \A self \in Handles(k, old) :
      LET steps == toCBOR(Presented(k, old))
          Then(deleted) ==
            IF deleted = Failure THEN Failure ELSE insert(deleted, k, new, steps)
      IN update(self, k, steps, old, new) = Then(delete(self, k, old, steps))

\* With an honest proof of two steps, an update to another value succeeds on
\* the root of the trie and an update from another value halts.
UpdateIsDeleteInsertWitness ==
  /\ last.op = "prove" /\ last.ok /\ Len(last.proof.steps) = 2
  /\ update(RootOf(trie), last.key, toCBOR(last.proof), last.value, last.value + 1)
       \notin {Failure, RootOf(trie)}
  /\ update(RootOf(trie), last.key, toCBOR(last.proof), last.value + 1, last.value)
       = Failure

\* C13: a call that was started while an earlier call on the same trie was
\* suspended ends by throwing.
SecondCallFails ==
  Len(calls) = 2 /\ calls[2].outcome # "pending" => calls[2].outcome = "threw"

\* What C14 compares: the content of the store and the root hash, size and
\* prefix of the object, before a call and after it.
Restored(r) ==
  ~r.ok => /\ r.db = db
           /\ r.trie.hash = trie.hash
           /\ r.trie.size = trie.size
           /\ r.trie.prefix = trie.prefix

\* C14: an insert or a delete that throws leaves the content of the store
\* as it was before the call, and the trie object with the root hash, the
\* size and the prefix it had before the call.
FailureRestores ==
  /\ \A k \in Keys : \A v \in Values : Restored(Insert(trie, db, k, v))
  /\ \A k \in Keys : Restored(Delete(trie, db, k))

\* Whether store.get(hash, Trie.deserialise) returns a node, and the same
\* for every node below it.
RECURSIVE Readable(_, _)
Readable(d, hash) ==
  /\ hash \in DOMAIN d
  /\ d[hash].kind = "Branch" =>
       \A i \in NonEmpty(d[hash].children) : Readable(d, d[hash].children[i])

\* C15: at every point of an insert or a delete, when the hash of the trie
\* object holds a value, the node with that hash and every node below it
\* can be read from the store.
NodesBeforeRoot ==
  Len(calls) <= 1 /\ store = 1 /\ trie.hash \notin {Null, Undefined}
    => Readable(db, trie.hash)

\* C16: after every completed fromList, insert or delete on a root trie,
\* whether it returned or threw, the store holds under ROOT_KEY the
\* hexadecimal form of the root hash of the trie, which is that of
\* NULL_HASH exactly when the trie is empty.
RootKeyCurrent ==
  last.op \in {"fromList", "insert", "delete"} /\ trie.isRoot =>
    /\ ROOT_KEY \in DOMAIN db
    /\ db[ROOT_KEY].root = ToHex(RootOf(trie))
    /\ db[ROOT_KEY].root = ToHex(NULL_HASH) <=> trie.size = 0

\* The forms in which a caller can give a key: the Buffer object that the
\* root Leaf holds, another Buffer with the same bytes, or a string, which
\* intoPath and Leaf.from turn into the Buffer of its bytes.
KeyForms == {"same", "equal", "string"}

\* trie.insert(key, value) with the key in one of its forms.  On a Leaf the
\* assertion 'this.key !== key' fails for the Buffer object the Leaf holds;
\* the leaves below a Branch are read from the store and hold Buffers of
\* their own.
InsertAs(t, d, k, v, form) ==
  IF t.kind = "Leaf" /\ form = "same" /\ t.key = k THEN Result(FALSE, t, d)
  ELSE Insert(t, d, k, v)

\* C17: insert(k, v) throws when the trie holds the key k, for every value
\* v, every form of the key and every shape of the trie.
InsertExistingThrows ==
  \A k \in Present : \A v \in ClaimedValues : \A form \in KeyForms :
    ~InsertAs(trie, db, k, v, form).ok

\* An insert of a key that a Branch below the root Branch leads to has
\* thrown.
InsertExistingThrowsWitness ==
  /\ last.op = "insert" /\ ~last.fresh /\ ~last.ok
  /\ trie.kind = "Branch"
  /\ Len(prove(trie, db, last.key)[1].steps) = 2

\* C18: delete(k) and prove(k) throw for every key k that the trie does not
\* hold, whatever the shape of the trie.
AbsentThrows ==
  \A k \in Keys \ Present :
    /\ ~Delete(trie, db, k).ok
    /\ prove(trie, db, k) = <<>>

\* The shapes C18 names, for the path of an absent key in a trie t: the
\* trie is empty, is a Leaf of another key, has no child where the path
\* leads, has a prefix the path leaves, or has a Leaf of another key where
\* the path leads.
AbsentCase(t, d, path) ==
  LET rest == Slice(path, Len(t.prefix))
      child == t.children[rest[1] + 1]
  IN IF t.kind = "Trie" THEN "empty"
     ELSE IF t.kind = "Leaf" THEN "leaf"
     ELSE IF ~StartsWith(path, t.prefix) THEN "prefix"
     ELSE IF child = NoChild THEN "slot"
     ELSE IF d[child].kind = "Leaf" THEN "other"
     ELSE "deeper"

\* A delete of an absent key has thrown where the path ends on a Leaf of
\* another key, in a trie where the path of another absent key leaves the
\* prefix of the root.
AbsentThrowsWitness ==
  /\ last.op = "delete" /\ ~last.ok
  /\ AbsentCase(trie, db, intoPath(last.key)) = "other"
  /\ \E k \in Keys \ Present : AbsentCase(trie, db, intoPath(k)) = "prefix"

\* The hashes of the nodes that can be reached from the node with the given
\* hash, as far as the store holds them.
RECURSIVE ReachableNodes(_, _)
ReachableNodes(d, hash) ==
  IF hash \notin DOMAIN d THEN {hash}
  ELSE IF d[hash].kind # "Branch" THEN {hash}
  ELSE {hash} \cup UNION {ReachableNodes(d, d[hash].children[i]) :
                            i \in NonEmpty(d[hash].children)}

\* The keys the store of a trie is to hold: one per node of the trie, and
\* ROOT_KEY.
ExpectedKeys(t, d) ==
  (IF t.hash = Null THEN {} ELSE ReachableNodes(d, t.hash)) \cup {ROOT_KEY}

\* C19: after any sequence of completed fromList, insert and delete, the
\* store holds one entry for each node that can be reached from the root,
\* one entry under ROOT_KEY, and nothing else.
StoreIsTheTrie == last.op # "new" => DOMAIN db = ExpectedKeys(trie, db)

\* C20: after any sequence of completed inserts and deletes, get(k) is the
\* value the trie maps k to, and undefined (0) for every key the trie does
\* not hold.
GetIsContent == \A k \in Keys : get(trie, db, k) = content[k]

\* After an insert that returned, the trie is a Branch with a Branch below
\* it, get finds a key under the lower Branch, and the path of an absent
\* key leads into the lower Branch too, for which get gives undefined.
GetIsContentWitness ==
  /\ last.op = "insert" /\ last.fresh /\ last.ok
  /\ trie.kind = "Branch"
  /\ \E k \in Present : /\ Len(prove(trie, db, k)[1].steps) = 2
                        /\ get(trie, db, k) = content[k]
  /\ \E k \in Keys \ Present : /\ AbsentCase(trie, db, intoPath(k)) = "deeper"
                               /\ get(trie, db, k) = 0

\* What C21 asks of the trie that Trie.load returns.
LoadAgrees(l) ==
  /\ l.ok
  /\ RootOf(l.trie) = RootOf(trie)
  /\ l.trie.size = trie.size
  /\ l.store = store

\* C21: after any sequence of completed operations on a trie and its store,
\* Trie.load on that store returns a trie with the root hash and the size
\* of the live trie, on the same store.
LoadIsLive == last.op # "new" => LoadAgrees(Load(db))

\* The children of a Branch that holds x at slot a and y at slot b only.
TwoChildren(a, x, b, y) ==
  [i \in 1..Radix |-> IF i = a + 1 THEN x ELSE IF i = b + 1 THEN y ELSE NoChild] \o <<>>

\* C22: for all nibbles me # neighbor and all hashes a and b,
\* sparse_merkle_16(me, a, neighbor, b) is the Merkle root of the 16 slots
\* that hold a at me, b at neighbor and NULL_HASH elsewhere.
SparseIsFull ==
  pure.fn = "sparse_merkle_16" =>
    pure.result = merkleRoot(TwoChildren(pure.args.me, pure.args.me_hash,
                                         pure.args.neighbor, pure.args.neighbor_hash))

\* sparse_merkle_16 was applied to two distinct digests in one pair of
\* slots, me on the right.
SparseIsFullWitness ==
  /\ pure.fn = "sparse_merkle_16"
  /\ pure.args.me = 9 /\ pure.args.neighbor = 8
  /\ pure.args.me_hash = digest(<< 1 >>) /\ pure.args.neighbor_hash = digest(<< 2 >>)
  /\ pure.result # Failure

\* C23: excluding the element, the verification of a proof without steps
\* gives NULL_HASH for every key, on-chain and off-chain.
EmptyExcludingIsNull ==
  pure.fn = "verify" /\ pure.args.steps = <<>> /\ ~pure.args.including =>
    /\ pure.result.on = NULL_HASH
    /\ pure.result.off = NULL_HASH

\* A 32-byte hash, as against undefined and a verification that throws or halts.
IsHash(x) == x \notin {Failure, Undefined}

\* C24: for every path, value or none, mode and list of steps, the
\* verification returns a hash, on-chain and off-chain.
VerifyIsTotal ==
  pure.fn = "verify" => IsHash(pure.result.on) /\ IsHash(pure.result.off)

\* Whether every Branch kept in the store, and the trie object itself when
\* it is a Branch, has at least two populated children.
TwoOrMore(t, d) ==
  /\ t.kind = "Branch" => Cardinality(NonEmpty(t.children)) >= 2
  /\ \A x \in DOMAIN d :
       d[x].kind = "Branch" => Cardinality(NonEmpty(d[x].children)) >= 2

\* The node 'after' stands where 'before' stood, once the key of the given
\* path has been deleted: where 'before' was a Branch of two children, one
\* of them the deleted Leaf, 'after' is the other child under the merged
\* prefix; a Branch that keeps two children is looked into.
RECURSIVE Kept(_, _, _, _, _)
Kept(d0, before, d1, after, path) ==
  LET cursor == Len(before.prefix)
      thisNibble == path[cursor + 1]
      kids == Fetched(d0, before)
      gone == kids[thisNibble + 1]
      others == NonEmpty(before.children) \ {thisNibble + 1}
      Replaced(ix) ==
        /\ after.kind = kids[ix].kind
        /\ after.prefix = before.prefix \o << ix - 1 >> \o kids[ix].prefix
        /\ after.key = kids[ix].key
        /\ after.value = kids[ix].value
        /\ after.children = kids[ix].children
  IN IF before.kind # "Branch" THEN TRUE
     ELSE IF gone.kind = "Leaf"
       THEN Cardinality(others) = 1 => Replaced(CHOOSE ix \in others : TRUE)
     ELSE /\ after.kind = "Branch"
          /\ after.prefix = before.prefix
          /\ after.children[thisNibble + 1] \in DOMAIN d1
          /\ Kept(d0, gone, d1,
                  Deserialise(after.children[thisNibble + 1],
                              d1[after.children[thisNibble + 1]]),
                  Slice(path, cursor + 1))

\* Whether deleting the key of the path merges a Branch with its only
\* remaining child, and the kind of that child.
RECURSIVE Collapses(_, _, _)
Collapses(d, node, path) ==
  LET cursor == Len(node.prefix)
      thisNibble == path[cursor + 1]
      kids == Fetched(d, node)
      others == NonEmpty(node.children) \ {thisNibble + 1}
  IN IF node.kind # "Branch" THEN "no"
     ELSE IF kids[thisNibble + 1].kind = "Leaf"
       THEN IF Cardinality(others) = 1
              THEN kids[CHOOSE ix \in others : TRUE].kind ELSE "no"
     ELSE Collapses(d, kids[thisNibble + 1], Slice(path, cursor + 1))

\* C25: after any sequence of inserts and deletes, every Branch of the trie,
\* in memory and in the store, has at least two populated children, and a
\* delete that leaves a Branch with one child puts that child in its place,
\* of the same kind and with the prefix branch.prefix, nibble, child.prefix.
BranchesFork ==
  /\ TwoOrMore(trie, db)
  /\ \A k \in Present :
       Delete(trie, db, k).ok =>
         Kept(db, trie, Delete(trie, db, k).db, Delete(trie, db, k).trie, intoPath(k))

\* From a trie of three keys, two of them under a lower Branch, one delete
\* merges the root with that Branch and another merges the lower Branch
\* with its remaining Leaf.
BranchesForkWitness ==
  /\ trie.kind = "Branch" /\ trie.size = 3
  /\ \E k \in Present : Delete(trie, db, k).ok /\ Collapses(db, trie, intoPath(k)) = "Branch"
  /\ \E k \in Present : Delete(trie, db, k).ok /\ Collapses(db, trie, intoPath(k)) = "Leaf"

\* Whether every Leaf below the node, read from the store, has for suffix
\* what is left of the path of its key after 'above', the prefixes and the
\* nibbles of its ancestors from the root down.
RECURSIVE LeafPaths(_, _, _)
LeafPaths(d, node, above) ==
  IF node.kind = "Leaf" THEN above \o node.prefix = intoPath(node.key)
  ELSE IF node.kind # "Branch" THEN TRUE
  ELSE \A i \in NonEmpty(node.children) :
         /\ node.children[i] \in DOMAIN d
         /\ LeafPaths(d, Deserialise(node.children[i], d[node.children[i]]),
                      above \o node.prefix \o << i - 1 >>)

\* C26: after any sequence of inserts and deletes, for every Leaf of the
\* trie the prefixes and nibbles of its ancestors, from the root down,
\* followed by its suffix are the path of its key.
SuffixCompletesPath == LeafPaths(db, trie, <<>>)

\* A Branch with a prefix and a lower Branch, which an insert splits on its
\* prefix and a delete merges with its lower Branch, the Leaves keeping
\* the paths of their keys either way.
SuffixCompletesPathWitness ==
  /\ trie.kind = "Branch" /\ Len(trie.prefix) > 0
  /\ \E k \in Keys \ Present :
       /\ Insert(trie, db, k, 1).ok
       /\ Len(Insert(trie, db, k, 1).trie.prefix) < Len(trie.prefix)
       /\ LeafPaths(Insert(trie, db, k, 1).db, Insert(trie, db, k, 1).trie, <<>>)
  /\ \E k \in Present :
       /\ Delete(trie, db, k).ok
       /\ Collapses(db, trie, intoPath(k)) # "no"
       /\ LeafPaths(Delete(trie, db, k).db, Delete(trie, db, k).trie, <<>>)

\* The trie and the store the two calls started from: content is what
\* Trie.fromList was given, and no call changes it.
Initially ==
  IF Present = {} THEN Result(TRUE, NewTrie, EmptyDb)
  ELSE FromList(Present, [k \in Keys |-> IF content[k] = 0 THEN 1 ELSE content[k]])

\* The call c awaited on that trie, with no other call made.
Alone(c) ==
  IF c.op = "insert" THEN Insert(Initially.trie, Initially.db, c.key, c.value)
  ELSE Delete(Initially.trie, Initially.db, c.key)

\* A second call was made on a Branch while the first was suspended, it was
\* rejected, and both calls are over.
SecondRejected ==
  /\ Len(calls) = 2
  /\ Initially.trie.kind = "Branch"
  /\ calls[1].outcome # "pending"
  /\ calls[2].outcome = "threw"

\* C27: when a second insert or delete made while a first one is in flight is
\* rejected, then once the calls are over the root hash, the size and the
\* store are those the first call gives when it runs alone.
RejectedIsHarmless ==
  SecondRejected =>
    /\ RootOf(trie) = RootOf(Alone(calls[1]).trie)
    /\ trie.size = Alone(calls[1]).trie.size
    /\ db = Alone(calls[1]).db

\* C28: for every vector of 16 children and every index me, the root rebuilt
\* from children[me] and the four neighbors of merkleProof(children, me), by
\* the table of Proof.verify and by merkle_16, is merkleRoot(children).
RebuildIsRoot ==
  pure.fn = "rebuild" =>
    /\ pure.result.off = pure.result.root
    /\ pure.result.on = pure.result.root

\* The root of 16 children that all differ is rebuilt from the child at 6,
\* and the root of two children is rebuilt from an empty slot.
RebuildIsRootWitness ==
  /\ pure.fn = "rebuild"
  /\ pure.result.on = pure.result.root
  /\ pure.result.off = pure.result.root
  /\ \/ pure.args.me = 6 /\ NonEmpty(pure.args.children) = 1..Radix
     \/ /\ Cardinality(NonEmpty(pure.args.children)) = 2
        /\ pure.args.children[pure.args.me + 1] = NoChild

\* C29: a proof with a Leaf step whose key differs from the path below the
\* cursor of the step is rejected by proof.verify in both modes, and
\* verifies on-chain neither, including the element, to the root of the trie
\* nor, excluding it, to the root of the trie without the element.
LeafKeyAgrees ==
  last.op = "alterKey" =>
    /\ verify(last.proof, TRUE) = Failure
    /\ verify(last.proof, FALSE) = Failure
    /\ including(last.key, last.value, toCBOR(last.proof)) # RootOf(trie)
    /\ excluding(last.key, toCBOR(last.proof)) # last.before

\* C30: once every call to Store.batch has ended, by success, by an exception
\* in the callback or by a failure of the write to the database, the Store
\* has no batch: the next Store.batch is accepted and puts and dels are
\* written, not queued.
NoBatchLeft ==
  (\A i \in 1..Len(calls) : calls[i].outcome # "pending") => ~batch.open
====
